---- MODULE Spec2Model ----
(***************************************************************************)
(* Model of the deployment engine of nostr-deploy-cli:                     *)
(*   DeploymentManager.deployStaticSite  (src/utils/deployment.ts)         *)
(*   BlossomManager.uploadDirectory ...  (src/utils/blossom.ts)            *)
(*   NostrManager.publishEvent ...       (src/utils/nostr.ts)              *)
(*                                                                         *)
(* Strings that the code takes apart (file paths) are sequences of tokens: *)
(* a token is a separator ("/" or "\\") or a name without separators.      *)
(* Every await of the code is the boundary between two actions.            *)
(***************************************************************************)
EXTENDS Integers, Sequences, FiniteSets, TLC

\* ------------------------------------------------------------------ bounds
\* largest number of files found under the build directory
MaxFiles == 2

\* largest number of (file, server) pairs of one deployment
MaxAttempts == 4

\* largest number of (file, relay) pairs of one deployment
MaxBroadcasts == 4

\* ------------------------------------------------------- program constants
KindStaticFile == 34128
KindUserServers == 10063

\* targetDifficulty of a proof-of-work configuration that names none
DefaultTargetDifficulty == 30

\* ------------------------------------------------------------- the inputs
\* buildDirectory argument of deployStaticSite
BuildDir == <<"dist">>

IndexHtml == <<"index.html">>
SubIndexHtml == <<"sub", "/", "index.html">>
AppJs == <<"app.js">>

\* paths (relative to the build directory) a tree may hold
FileUniverse == {IndexHtml, SubIndexHtml, AppJs}

\* content digest of each file of the universe
Sha256 == [f \in FileUniverse |->
             IF f = IndexHtml THEN "h1" ELSE IF f = SubIndexHtml THEN "h2" ELSE "h3"]

\* digest of the content a file has after another process rewrote it
Sha256Rewritten == [f \in FileUniverse |->
             IF f = IndexHtml THEN "h1'" ELSE IF f = SubIndexHtml THEN "h2'" ELSE "h3'"]

DefaultServer == "https://cdn.hzrd149.com"
ServerA == "https://blossom.a"
ServerB == "https://blossom.b"

RelayA == "wss://relay.a"
RelayB == "wss://relay.b"

\* a UserConfig; "" is a key that is not set
UserConfig(sk, pk, relays, blossom) ==
  [privateKey |-> sk, publicKey |-> pk, relays |-> relays, servers |-> blossom,
   pow |-> [enabled |-> FALSE, targetDifficulty |-> DefaultTargetDifficulty]]

\* the configuration after `config --pow`
PowEnabled(userConfig) == [userConfig EXCEPT !.pow.enabled = TRUE]

\* the configurations a deployment is run with: a full identity with two
\* relays, a full identity with two storage servers, a read-only identity,
\* no identity, no relays, an empty server list, proof-of-work enabled
Configs ==
  {UserConfig("sk", "pk", <<RelayA, RelayB>>, <<DefaultServer>>),
   UserConfig("sk", "pk", <<RelayA>>, <<ServerA, ServerB>>),
   UserConfig("", "pk", <<RelayA>>, <<DefaultServer>>),
   UserConfig("sk", "", <<RelayA>>, <<DefaultServer>>),
   UserConfig("sk", "pk", << >>, <<DefaultServer>>),
   UserConfig("sk", "pk", <<RelayA>>, << >>),
   PowEnabled(UserConfig("sk", "pk", <<RelayA>>, <<DefaultServer>>))}

\* ------------------------------------------------------- string helpers
Range(s) == {s[i] : i \in 1..Len(s)}

NoRepeat(s) == \A i, j \in 1..Len(s) : i # j => s[i] # s[j]

\* the directory listings getAllFiles can return (readdir order is arbitrary)
Trees == {t \in UNION {[1..n -> FileUniverse] : n \in 0..MaxFiles} : NoRepeat(t)}

\* index of the first occurrence of pat in s, 0 when there is none
IndexOf(s, pat) ==
  LET hits == {i \in 1..(Len(s) - Len(pat) + 1) :
                 SubSeq(s, i, i + Len(pat) - 1) = pat}
  IN IF hits = {} THEN 0 ELSE CHOOSE i \in hits : \A j \in hits : i <= j

\* String.prototype.replace(pat, '') with a string pattern: first occurrence
ReplaceFirst(s, pat) ==
  LET i == IndexOf(s, pat)
  IN IF i = 0 THEN s
     ELSE SubSeq(s, 1, i - 1) \o SubSeq(s, i + Len(pat), Len(s))

\* filePath.split('/').pop() || 'unknown'
SplitPop(s) ==
  LET slashes == {i \in 1..Len(s) : s[i] = "/"}
      last == IF slashes = {} THEN 0
              ELSE CHOOSE i \in slashes : \A j \in slashes : j <= i
      tail == SubSeq(s, last + 1, Len(s))
  IN IF tail = << >> THEN <<"unknown">> ELSE tail

\* `${dirPath}/${item.name}` built by getAllFiles
FullPath(rel) == BuildDir \o <<"/">> \o rel

\* normalizeFilePath replacing the first backslash only (a replace without /g)
normalizeFilePath_FirstBackslash(filePath) ==
  LET i == IndexOf(filePath, <<"\\">>)
      normalizedPath == IF i = 0 THEN filePath ELSE [filePath EXCEPT ![i] = "/"]
  IN IF Len(normalizedPath) = 0 \/ normalizedPath[1] # "/"
     THEN <<"/">> \o normalizedPath
     ELSE normalizedPath

\* DeploymentManager.normalizeFilePath
normalizeFilePath(filePath) ==
  LET normalizedPath == [i \in 1..Len(filePath) |->
                           IF filePath[i] = "\\" THEN "/" ELSE filePath[i]]
  IN IF Len(normalizedPath) = 0 \/ normalizedPath[1] # "/"
     THEN <<"/">> \o normalizedPath
     ELSE normalizedPath

\* ------------------------------------------------------------------ state
VARIABLES
  pc,              \* position of deployStaticSite
  error,           \* the error deployStaticSite threw ("" while none)
  result,          \* the DeploymentResult returned (NoResult while none)
  config,          \* ConfigManager.getConfig(): nostr keys, relays, servers
  dirExists,       \* the build directory exists
  tree,            \* files under the build directory, in readdir order
  rewritten,       \* files another process rewrites while the deployment runs
  servers,         \* BlossomManager.servers
  blossomConfig,   \* BlossomManager.config is set (getConfig has run)
  files,           \* filePaths handed to uploadFiles
  filePc,          \* per file: position of uploadSingleFileToAllServers
  attempts,        \* per file: one record per server it was mapped over
  fileHash,        \* per file: fileHash of uploadSingleFileToAllServers
  failedResult,    \* per file: the result built by the catch of uploadFiles
  uploadResults,   \* the object uploadDirectory returned
  staticFiles,     \* StaticFileInfo[] built by deployStaticSite
  blossomServers,  \* Array.from(successfulServers)
  evIndex,         \* loop index i of publishStaticFileEvents
  event,           \* the event publishEvent is broadcasting
  relayState,      \* per configured relay: state of its publish attempt
  eventResults,    \* eventResults of publishStaticFileEvents
  sent,            \* history: every (event, relay) broadcast so far, in order
  answers,         \* history: the relays' answers to `event`, in arrival order
  relayError,      \* the message a relay of this run gives when it refuses
  miner,           \* the proof-of-work miner: its input, nonce and output
  normalizing,     \* a path handed to normalizeFilePath and what it returned
  envFile,         \* a configuration, the env file written from it, and
                   \* the configuration read back
  cm               \* the ConfigManager of a process, its env file and callers

vars == <<pc, error, result, config, dirExists, tree, rewritten, servers,
          blossomConfig, files, filePc, attempts, fileHash, failedResult,
          uploadResults,
          staticFiles, blossomServers, evIndex, event, relayState,
          eventResults, sent, answers, relayError, miner, normalizing,
          envFile, cm>>

NoResult == [none |-> TRUE]
NoEvent == [kind |-> 0, tags |-> << >>, content |-> ""]

deployVars == <<pc, error, result>>
\* what no step of deployStaticSite changes (publishEvent calls no miner)
envVars == <<config, dirExists, tree, rewritten, relayError, miner,
            normalizing, envFile, cm>>
uploadVars == <<servers, blossomConfig, files, filePc, attempts, fileHash,
                failedResult, uploadResults>>
recordVars == <<staticFiles, blossomServers>>
publishVars == <<evIndex, event, relayState, eventResults, sent, answers>>

\* a result without an error field
NoError == << >>

\* a relay's message that names no cause
Rejected == <<"rejected">>

\* relays' messages that name a cause: proof of work, rate, block, timeout
RelayErrors ==
  {<<"pow:", " 28 ", "bits needed">>,
   <<"rate limit", " exceeded">>,
   <<"blocked", ": spam">>,
   <<"publish ", "timeout">>}

\* no configuration is being saved or loaded, no process uses the
\* ConfigManager
NoConfigManager == [pc |-> "idle"]

\* no path is being normalized
NoPath == [pc |-> "idle", path |-> << >>, once |-> << >>, twice |-> << >>]

\* a miner that was given nothing to mine
MinerIdle == [pc |-> "idle", event |-> NoEvent, target |-> 0, timeout |-> FALSE,
              nonce |-> 0, result |-> NoEvent]

\* the managers as their constructors leave them
Constructed ==
  /\ pc = "validate"
  /\ error = ""
  /\ result = NoResult
  /\ servers = <<DefaultServer>>
  /\ blossomConfig = FALSE
  /\ files = << >>
  /\ filePc = << >>
  /\ attempts = << >>
  /\ fileHash = << >>
  /\ failedResult = << >>
  /\ uploadResults = << >>
  /\ staticFiles = << >>
  /\ blossomServers = << >>
  /\ evIndex = 0
  /\ event = NoEvent
  /\ relayState = << >>
  /\ eventResults = << >>
  /\ sent = << >>
  /\ answers = << >>

\* a deployment of a build directory whose files no other process touches
Init ==
  /\ config \in Configs
  /\ dirExists \in BOOLEAN
  /\ tree \in Trees
  /\ Len(tree) * Len(config.servers) <= MaxAttempts
  /\ Len(tree) * Len(config.relays) <= MaxBroadcasts
  /\ rewritten = {}
  /\ relayError = Rejected
  /\ miner = MinerIdle
  /\ normalizing = NoPath
  /\ envFile = NoConfigManager
  /\ cm = NoConfigManager
  /\ Constructed

\* a throw that leaves deployStaticSite
Throw(msg) ==
  /\ pc' = "failed"
  /\ error' = msg
  /\ UNCHANGED result

\* ------------------------------------------------- deployStaticSite, step 1
\* validateBuildDirectory content with an index.html in any subdirectory
ValidateBuildDirectory_AnyIndexHtml ==
  /\ pc = "validate"
  /\ IF ~dirExists
     THEN Throw("Build directory not found")
     ELSE IF \A i \in 1..Len(tree) : SplitPop(tree[i]) # IndexHtml
     THEN Throw("No index.html found in build directory")
     ELSE /\ pc' = "npub"
          /\ UNCHANGED <<error, result>>
  /\ UNCHANGED <<envVars, uploadVars, recordVars, publishVars>>

\* validateBuildDirectory: the directory and its index.html must exist
ValidateBuildDirectory ==
  /\ pc = "validate"
  /\ IF ~dirExists
     THEN Throw("Build directory not found")
     ELSE IF IndexHtml \notin Range(tree)
     THEN Throw("No index.html found in build directory")
     ELSE /\ pc' = "npub"
          /\ UNCHANGED <<error, result>>
  /\ UNCHANGED <<envVars, uploadVars, recordVars, publishVars>>

\* NostrManager.getNpubSubdomain
GetNpubSubdomain ==
  /\ pc = "npub"
  /\ IF config.publicKey = ""
     THEN Throw("No public key configured")
     ELSE /\ pc' = "uploadDirectory"
          /\ UNCHANGED <<error, result>>
  /\ UNCHANGED <<envVars, uploadVars, recordVars, publishVars>>

\* ------------------------------------------- BlossomManager.uploadDirectory
\* answers a storage server can give to HEAD /upload and to PUT /upload
\* (500 stands for every other failure: 5xx, network error, timeout)
HeadStatuses == {200, 204, 401, 403, 413, 415, 500}
PutStatuses == {200, 201, 204, 500}

\* answers to GET /<sha256>: the blob, a 404, or any other failure
GetBlobAnswers == {"found", "absent", "error"}

\* the x-reason header of an error answer to HEAD /upload ("": none)
XReasons == {"", "blocked"}

FileIds == 1..Len(files)

AttemptDone(a) == a.pc \in {"ok", "fail"}

\* uploadSingleFileToAllServers of file i has its result, or threw
FileDone(i) ==
  \/ filePc[i] = "caught"
  \/ filePc[i] = "servers" /\ \A k \in 1..Len(attempts[i]) : AttemptDone(attempts[i][k])

\* a request sent to a storage server
Request(method, authorization) == [method |-> method, authorization |-> authorization]

\* the answer of checkUploadRequirements before HEAD /upload was answered
NoCanUpload == [allowed |-> FALSE, requiresAuth |-> FALSE, reason |-> "pending"]

\* the contents a read of file f can find
Contents(f) == IF f \in rewritten THEN {Sha256[f], Sha256Rewritten[f]} ELSE {Sha256[f]}

\* uploadDirectory up to the call of uploadFiles: getAllFiles lists the tree
\* and uploadFiles starts uploadSingleFileToAllServers for every file
UploadDirectory ==
  /\ pc = "uploadDirectory"
  /\ pc' = "uploading"
  /\ files' = [i \in 1..Len(tree) |-> FullPath(tree[i])]
  /\ filePc' = [i \in 1..Len(tree) |-> "read"]
  /\ attempts' = [i \in 1..Len(tree) |-> << >>]
  /\ fileHash' = [i \in 1..Len(tree) |-> ""]
  /\ failedResult' = [i \in 1..Len(tree) |-> NoResult]
  /\ UNCHANGED <<error, result, envVars, servers, blossomConfig,
                 uploadResults, recordVars, publishVars>>

\* the result the catch of uploadFiles builds for a file
CaughtResult(filePath, msg) ==
  [filename |-> SplitPop(filePath),
   sha256 |-> "",
   serverResults |-> [k \in 1..Len(servers) |->
                        [server |-> servers[k], success |-> FALSE, error |-> msg]],
   hasSuccess |-> FALSE]

\* uploadSingleFileToAllServers called by uploadFiles without its try/catch:
\* the throw for a missing file rejects Promise.all and leaves uploadDirectory
ReadFile_Uncaught(i) ==
  /\ pc = "uploading"
  /\ filePc[i] = "read"
  /\ \/ \E hash \in Contents(tree[i]) :
          /\ filePc' = [filePc EXCEPT ![i] = "servers"]
          /\ fileHash' = [fileHash EXCEPT ![i] = hash]
          /\ attempts' = [attempts EXCEPT ![i] =
               [k \in 1..Len(servers) |->
                  [server |-> servers[k], pc |-> "read", error |-> "",
                   sha256 |-> "", existingFile |-> FALSE,
                   canUpload |-> NoCanUpload, requests |-> << >>]]]
          /\ UNCHANGED <<deployVars, failedResult>>
     \/ /\ Throw("File not found")
        /\ UNCHANGED <<filePc, failedResult, attempts, fileHash>>
  /\ UNCHANGED <<envVars, servers, blossomConfig, files,
                 uploadResults, recordVars, publishVars>>

\* uploadSingleFileToAllServers up to the map over this.servers: the file is
\* read and hashed, then one uploadSingleFileToServer starts per server; a
\* file that is missing or unreadable throws into the catch of uploadFiles
ReadFile(i) ==
  /\ pc = "uploading"
  /\ filePc[i] = "read"
  /\ \/ \E hash \in Contents(tree[i]) :
          /\ filePc' = [filePc EXCEPT ![i] = "servers"]
          /\ fileHash' = [fileHash EXCEPT ![i] = hash]
          /\ attempts' = [attempts EXCEPT ![i] =
               [k \in 1..Len(servers) |->
                  [server |-> servers[k], pc |-> "read", error |-> "",
                   sha256 |-> "", existingFile |-> FALSE,
                   canUpload |-> NoCanUpload, requests |-> << >>]]]
          /\ UNCHANGED failedResult
     \/ /\ filePc' = [filePc EXCEPT ![i] = "caught"]
        /\ failedResult' = [failedResult EXCEPT ![i] =
             CaughtResult(files[i], "File not found")]
        /\ UNCHANGED <<attempts, fileHash>>
  /\ UNCHANGED <<deployVars, envVars, servers, blossomConfig, files,
                 uploadResults, recordVars, publishVars>>

SetAttempt(i, k, a) == attempts' = [attempts EXCEPT ![i][k] = a]

\* uploadSingleFileToServer, readFile: the file is read and hashed again,
\* then GET /<sha256> is sent
AttemptReadFile(i, k) ==
  /\ pc = "uploading"
  /\ filePc[i] = "servers"
  /\ k \in 1..Len(attempts[i])
  /\ attempts[i][k].pc = "read"
  /\ \/ \E hash \in Contents(tree[i]) :
          SetAttempt(i, k, [attempts[i][k] EXCEPT
                              !.pc = "get", !.sha256 = hash,
                              !.requests = <<Request("GET", FALSE)>>])
     \/ SetAttempt(i, k, [attempts[i][k] EXCEPT !.pc = "fail", !.error = "ENOENT"])
  /\ UNCHANGED <<deployVars, envVars, servers, blossomConfig, files, filePc,
                 fileHash, failedResult, uploadResults, recordVars, publishVars>>

\* the answer of getBlob going on to the policy probe although the blob exists
GetBlobAnswer_IgnoreExisting(i, k) ==
  /\ pc = "uploading"
  /\ filePc[i] = "servers"
  /\ k \in 1..Len(attempts[i])
  /\ attempts[i][k].pc = "get"
  /\ \E answer \in GetBlobAnswers :
       SetAttempt(i, k, [attempts[i][k] EXCEPT
                           !.pc = "head", !.existingFile = (answer = "found"),
                           !.requests = Append(@, Request("HEAD", FALSE))])
  /\ UNCHANGED <<deployVars, envVars, servers, blossomConfig, files, filePc,
                 fileHash, failedResult, uploadResults, recordVars, publishVars>>

\* uploadSingleFileToServer, answer of getBlob: an existing blob is a success,
\* otherwise (404 or any error) HEAD /upload is sent
GetBlobAnswer(i, k) ==
  /\ pc = "uploading"
  /\ filePc[i] = "servers"
  /\ k \in 1..Len(attempts[i])
  /\ attempts[i][k].pc = "get"
  /\ \E answer \in GetBlobAnswers :
       IF answer = "found"
       THEN SetAttempt(i, k, [attempts[i][k] EXCEPT
                                !.pc = "ok", !.existingFile = TRUE])
       ELSE SetAttempt(i, k, [attempts[i][k] EXCEPT
                                !.pc = "head",
                                !.requests = Append(@, Request("HEAD", FALSE))])
  /\ UNCHANGED <<deployVars, envVars, servers, blossomConfig, files, filePc,
                 fileHash, failedResult, uploadResults, recordVars, publishVars>>

\* `Server rejected upload (${status})`
ServerRejectedUpload(status) ==
  CASE status = 403 -> "Server rejected upload (403)"
    [] status = 413 -> "Server rejected upload (413)"
    [] status = 415 -> "Server rejected upload (415)"
    [] OTHER -> "Server rejected upload"

\* checkUploadRequirements treating 403 like a failed probe
checkUploadRequirements_ForbiddenAllowed(status, xReason) ==
  IF status \in 200..299
  THEN [allowed |-> status = 200, requiresAuth |-> FALSE, reason |-> "undefined"]
  ELSE IF status = 401
  THEN [allowed |-> TRUE, requiresAuth |-> TRUE, reason |-> "undefined"]
  ELSE IF status \in {413, 415}
  THEN [allowed |-> FALSE, requiresAuth |-> FALSE,
        reason |-> IF xReason # "" THEN xReason ELSE ServerRejectedUpload(status)]
  ELSE [allowed |-> TRUE, requiresAuth |-> TRUE, reason |-> "undefined"]

\* checkUploadRequirements: status is the answer to HEAD /upload, xReason the
\* x-reason header (or the body) of an error answer, "" when there is none
checkUploadRequirements(status, xReason) ==
  IF status \in 200..299
  THEN [allowed |-> status = 200, requiresAuth |-> FALSE, reason |-> "undefined"]
  ELSE IF status = 401
  THEN [allowed |-> TRUE, requiresAuth |-> TRUE, reason |-> "undefined"]
  ELSE IF status \in {403, 413, 415}
  THEN [allowed |-> FALSE, requiresAuth |-> FALSE,
        reason |-> IF xReason # "" THEN xReason ELSE ServerRejectedUpload(status)]
  ELSE [allowed |-> TRUE, requiresAuth |-> TRUE, reason |-> "undefined"]

\* uploadSingleFileToServer, answer of HEAD /upload: a probe that does not
\* allow the upload throws, one that requires no authorization sends the PUT
HeadAnswer(i, k) ==
  /\ pc = "uploading"
  /\ filePc[i] = "servers"
  /\ k \in 1..Len(attempts[i])
  /\ attempts[i][k].pc = "head"
  /\ \E status \in HeadStatuses, xReason \in XReasons :
       LET canUpload == checkUploadRequirements(status, xReason)
       IN IF ~canUpload.allowed
          THEN SetAttempt(i, k, [attempts[i][k] EXCEPT
                                   !.pc = "fail", !.error = "Upload rejected",
                                   !.canUpload = canUpload])
          ELSE IF canUpload.requiresAuth
          THEN SetAttempt(i, k, [attempts[i][k] EXCEPT
                                   !.pc = "auth", !.canUpload = canUpload])
          ELSE SetAttempt(i, k, [attempts[i][k] EXCEPT
                                   !.pc = "put", !.canUpload = canUpload,
                                   !.requests = Append(@, Request("PUT", FALSE))])
  /\ UNCHANGED <<deployVars, envVars, servers, blossomConfig, files, filePc,
                 fileHash, failedResult, uploadResults, recordVars, publishVars>>

\* createBlossomAuthEvent: the first call of BlossomManager.getConfig replaces
\* this.servers by the configured servers; without a private key it throws,
\* otherwise PUT /upload is sent with the Authorization header
CreateBlossomAuthEvent(i, k) ==
  /\ pc = "uploading"
  /\ filePc[i] = "servers"
  /\ k \in 1..Len(attempts[i])
  /\ attempts[i][k].pc = "auth"
  /\ blossomConfig' = TRUE
  /\ servers' = IF blossomConfig THEN servers ELSE config.servers
  /\ IF config.privateKey = ""
     THEN SetAttempt(i, k, [attempts[i][k] EXCEPT
                              !.pc = "fail",
                              !.error = "Failed to create Blossom auth event"])
     ELSE SetAttempt(i, k, [attempts[i][k] EXCEPT
                              !.pc = "put",
                              !.requests = Append(@, Request("PUT", TRUE))])
  /\ UNCHANGED <<deployVars, envVars, files, filePc, fileHash, failedResult,
                 uploadResults, recordVars, publishVars>>

\* uploadSingleFileToServer sending PUT /upload a second time after a failure
PutAnswer_Retry(i, k) ==
  /\ pc = "uploading"
  /\ filePc[i] = "servers"
  /\ k \in 1..Len(attempts[i])
  /\ attempts[i][k].pc = "put"
  /\ \E status \in PutStatuses :
       IF status \in {200, 201}
       THEN SetAttempt(i, k, [attempts[i][k] EXCEPT !.pc = "ok"])
       ELSE IF Len(attempts[i][k].requests) < 4
       THEN SetAttempt(i, k, [attempts[i][k] EXCEPT
                                !.requests = Append(@, Request("PUT", TRUE))])
       ELSE SetAttempt(i, k, [attempts[i][k] EXCEPT !.pc = "fail",
                                !.error = "Upload failed"])
  /\ UNCHANGED <<deployVars, envVars, servers, blossomConfig, files, filePc,
                 fileHash, failedResult, uploadResults, recordVars, publishVars>>

\* uploadSingleFileToServer, answer of PUT /upload
PutAnswer(i, k) ==
  /\ pc = "uploading"
  /\ filePc[i] = "servers"
  /\ k \in 1..Len(attempts[i])
  /\ attempts[i][k].pc = "put"
  /\ \E status \in PutStatuses :
       IF status \in {200, 201}
       THEN SetAttempt(i, k, [attempts[i][k] EXCEPT !.pc = "ok"])
       ELSE SetAttempt(i, k, [attempts[i][k] EXCEPT !.pc = "fail",
                                !.error = "Upload failed"])
  /\ UNCHANGED <<deployVars, envVars, servers, blossomConfig, files, filePc,
                 fileHash, failedResult, uploadResults, recordVars, publishVars>>

\* serverResults of uploadSingleFileToAllServers: every inner promise fulfils
\* (its body catches), so each entry is the value the attempt returned
ServerResults(i) ==
  [k \in 1..Len(attempts[i]) |->
     [server |-> attempts[i][k].server,
      success |-> attempts[i][k].pc = "ok",
      error |-> attempts[i][k].error]]

\* hasSuccess computed with every() instead of some()
hasSuccessOf_Every(processedResults) ==
  \A k \in 1..Len(processedResults) : processedResults[k].success

hasSuccessOf(processedResults) ==
  \E k \in 1..Len(processedResults) : processedResults[k].success

\* the BlossomFileResult of file i
FileResult(i) ==
  IF filePc[i] = "caught" THEN failedResult[i]
  ELSE [filename |-> files[i],
        sha256 |-> fileHash[i],
        serverResults |-> ServerResults(i),
        hasSuccess |-> hasSuccessOf(ServerResults(i))]

\* results[key] = value on an object whose keys keep their insertion order
ObjectSet(obj, key, value) ==
  IF \E j \in 1..Len(obj) : obj[j].key = key
  THEN [j \in 1..Len(obj) |->
          IF obj[j].key = key THEN [key |-> key, value |-> value] ELSE obj[j]]
  ELSE Append(obj, [key |-> key, value |-> value])

\* relativePath of uploadDirectory
RelativePath(filename) ==
  ReplaceFirst(ReplaceFirst(filename, BuildDir \o <<"/">>), BuildDir \o <<"\\">>)

\* the forEach of uploadDirectory over the first n results
RECURSIVE ResultsObject(_)
ResultsObject(n) ==
  IF n = 0 THEN << >>
  ELSE ObjectSet(ResultsObject(n - 1), RelativePath(FileResult(n).filename),
                 FileResult(n))

\* Promise.all of uploadFiles resolves and uploadDirectory returns its object
UploadDirectoryReturn ==
  /\ pc = "uploading"
  /\ \A i \in FileIds : FileDone(i)
  /\ uploadResults' = ResultsObject(Len(files))
  /\ pc' = "buildRecords"
  /\ UNCHANGED <<error, result, envVars, servers, blossomConfig, files, filePc,
                 attempts, fileHash, failedResult, recordVars, publishVars>>

\* ------------------------------------- deployStaticSite, steps 4 and 5
\* the loop over Object.entries(uploadResults) up to entry n
RECURSIVE StaticFilesOf(_, _)
StaticFilesOf(obj, n) ==
  IF n = 0 THEN << >>
  ELSE IF obj[n].value.hasSuccess
  THEN Append(StaticFilesOf(obj, n - 1),
              [path |-> normalizeFilePath(obj[n].key),
               sha256 |-> obj[n].value.sha256])
  ELSE StaticFilesOf(obj, n - 1)

\* step 4 without the check for an empty staticFiles
BuildStaticFiles_NoEmptyCheck ==
  /\ pc = "buildRecords"
  /\ staticFiles' = StaticFilesOf(uploadResults, Len(uploadResults))
  /\ pc' = "successfulServers"
  /\ UNCHANGED <<error, result>>
  /\ UNCHANGED <<envVars, uploadVars, blossomServers, publishVars>>

\* step 4 starting the upload again instead of giving up
BuildStaticFiles_RetryUpload ==
  /\ pc = "buildRecords"
  /\ staticFiles' = StaticFilesOf(uploadResults, Len(uploadResults))
  /\ pc' = IF Len(staticFiles') = 0 THEN "uploadDirectory" ELSE "successfulServers"
  /\ UNCHANGED <<error, result>>
  /\ UNCHANGED <<envVars, uploadVars, blossomServers, publishVars>>

\* step 4: one StaticFileInfo per entry with hasSuccess; none is fatal
BuildStaticFiles ==
  /\ pc = "buildRecords"
  /\ staticFiles' = StaticFilesOf(uploadResults, Len(uploadResults))
  /\ IF Len(staticFiles') = 0
     THEN Throw("No files were successfully uploaded to any Blossom server")
     ELSE /\ pc' = "successfulServers"
          /\ UNCHANGED <<error, result>>
  /\ UNCHANGED <<envVars, uploadVars, blossomServers, publishVars>>

\* Set.add in insertion order
SetAdd(set, x) == IF x \in Range(set) THEN set ELSE Append(set, x)

\* successfulServers after the first n serverResults of one file result
RECURSIVE AddServerResults(_, _, _)
AddServerResults(set, serverResults, n) ==
  IF n = 0 THEN set
  ELSE LET before == AddServerResults(set, serverResults, n - 1)
       IN IF serverResults[n].success
          THEN SetAdd(before, serverResults[n].server)
          ELSE before

\* successfulServers restricted to configuredServers
RECURSIVE SuccessfulServers_ConfiguredOnly(_, _)
SuccessfulServers_ConfiguredOnly(obj, n) ==
  IF n = 0 THEN << >>
  ELSE SelectSeq(AddServerResults(SuccessfulServers_ConfiguredOnly(obj, n - 1),
                                  obj[n].value.serverResults,
                                  Len(obj[n].value.serverResults)),
                 LAMBDA server : server \in Range(config.servers))

\* successfulServers after the first n values of uploadResults
RECURSIVE SuccessfulServers(_, _)
SuccessfulServers(obj, n) ==
  IF n = 0 THEN << >>
  ELSE AddServerResults(SuccessfulServers(obj, n - 1),
                        obj[n].value.serverResults,
                        Len(obj[n].value.serverResults))

\* step 5 (after await getConfig): the servers with a successful upload
CollectSuccessfulServers ==
  /\ pc = "successfulServers"
  /\ blossomServers' = SuccessfulServers(uploadResults, Len(uploadResults))
  /\ IF Len(blossomServers') = 0
     THEN /\ Throw("No Blossom servers had successful uploads")
          /\ UNCHANGED evIndex
     ELSE /\ pc' = "publishFile"
          /\ evIndex' = 1
          /\ UNCHANGED <<error, result>>
  /\ UNCHANGED <<envVars, uploadVars, staticFiles, event, relayState,
                 eventResults, sent, answers>>

\* ------------------------------------------------ NostrManager.publishEvent
\* the event of publishStaticFileEvents for one file
StaticFileEvent(file) ==
  [kind |-> KindStaticFile,
   tags |-> << <<"d", file.path>>, <<"x", file.sha256>> >>,
   content |-> ""]

\* the event of publishUserServersEvent
UserServersEvent(list) ==
  [kind |-> KindUserServers,
   tags |-> [k \in 1..Len(list) |-> <<"server", list[k]>>],
   content |-> ""]

\* event.id: the digest of the serialized event
EventId(e) == <<"id", e.kind, e.tags, e.content>>

\* publishEvent without its check for a private key
PublishEventStart_NoKeyCheck(e, broadcasting) ==
  IF Len(config.relays) = 0
  THEN /\ Throw("No relays configured")
       /\ UNCHANGED <<event, relayState, sent, answers>>
  ELSE /\ pc' = broadcasting
       /\ event' = e
       /\ relayState' = [k \in 1..Len(config.relays) |-> "inflight"]
       /\ sent' = sent \o [k \in 1..Len(config.relays) |->
                             [event |-> e, relay |-> config.relays[k]]]
       /\ answers' = << >>
       /\ UNCHANGED <<error, result>>

\* publishEvent up to the map over the relays: without a private key or
\* without relays it throws, otherwise pool.publish is called once per relay
PublishEventStart(e, broadcasting) ==
  IF config.privateKey = ""
  THEN /\ Throw("No private key configured")
       /\ UNCHANGED <<event, relayState, sent, answers>>
  ELSE IF Len(config.relays) = 0
  THEN /\ Throw("No relays configured")
       /\ UNCHANGED <<event, relayState, sent, answers>>
  ELSE /\ pc' = broadcasting
       /\ event' = e
       /\ relayState' = [k \in 1..Len(config.relays) |-> "inflight"]
       /\ sent' = sent \o [k \in 1..Len(config.relays) |->
                             [event |-> e, relay |-> config.relays[k]]]
       /\ answers' = << >>
       /\ UNCHANGED <<error, result>>

\* publishStaticFileEvents: publishEvent for files[i]
PublishStaticFileEvent ==
  /\ pc = "publishFile"
  /\ PublishEventStart(StaticFileEvent(staticFiles[evIndex]), "broadcastFile")
  /\ UNCHANGED <<envVars, uploadVars, recordVars, evIndex, eventResults>>

\* publishUserServersEvent
PublishUserServersEvent ==
  /\ pc = "publishServers"
  /\ PublishEventStart(UserServersEvent(blossomServers), "broadcastServers")
  /\ UNCHANGED <<envVars, uploadVars, recordVars, evIndex, eventResults>>

\* the promise of pool.publish([relay], event) settles for relay k
RelayAnswer(k) ==
  /\ pc \in {"broadcastFile", "broadcastServers"}
  /\ k \in 1..Len(relayState)
  /\ relayState[k] = "inflight"
  /\ \E accepted \in BOOLEAN :
       /\ relayState' = [relayState EXCEPT ![k] =
                           IF accepted THEN "accepted" ELSE "rejected"]
       /\ answers' = Append(answers, [relay |-> config.relays[k],
                                       accepted |-> accepted])
  /\ UNCHANGED <<deployVars, envVars, uploadVars, recordVars, evIndex, event,
                 eventResults, sent>>

\* errorMessage.includes(text), for a message given as its pieces
Includes(errorMessage, text) == text \in Range(errorMessage)

\* categorizedError of publishEvent
CategorizedError(errorMessage) ==
  IF \/ Includes(errorMessage, "pow:")
     \/ Includes(errorMessage, "POW")
     \/ Includes(errorMessage, "bits needed")
  THEN <<"POW required: ">> \o errorMessage
  ELSE IF Includes(errorMessage, "rate limit") \/ Includes(errorMessage, "too many")
  THEN <<"Rate limited: ">> \o errorMessage
  ELSE IF Includes(errorMessage, "blocked") \/ Includes(errorMessage, "banned")
  THEN <<"Blocked: ">> \o errorMessage
  ELSE IF Includes(errorMessage, "timeout") \/ Includes(errorMessage, "TIMEOUT")
  THEN <<"Connection timeout: ">> \o errorMessage
  ELSE errorMessage

\* relayResults[k] of Promise.allSettled: the function mapped over the relays
\* catches what pool.publish rejects with and returns it, so its promise
\* always fulfils
RelayResult(k) ==
  [status |-> "fulfilled",
   value |-> [relay |-> config.relays[k],
              success |-> relayState[k] = "accepted",
              error |-> IF relayState[k] = "accepted" THEN NoError
                        ELSE relayError]]

\* processedResults listed in the order the answers arrived
ProcessedResults_ArrivalOrder ==
  [k \in 1..Len(answers) |->
     [relay |-> answers[k].relay,
      success |-> answers[k].accepted,
      error |-> IF answers[k].accepted THEN NoError ELSE relayError]]

\* processedResults of publishEvent
ProcessedResults ==
  [k \in 1..Len(relayState) |->
     IF RelayResult(k).status = "fulfilled"
     THEN RelayResult(k).value
     ELSE [relay |-> config.relays[k],
           success |-> FALSE,
           error |-> CategorizedError(RelayResult(k).reason)]]

AllSettled == \A k \in 1..Len(relayState) : relayState[k] # "inflight"

PublishOutcome == [eventId |-> EventId(event), relayResults |-> ProcessedResults]

\* the loop of publishStaticFileEvents going on after an event no relay took
StaticFileEventSettled_ContinueOnFailure ==
  /\ pc = "broadcastFile"
  /\ AllSettled
  /\ eventResults' = Append(eventResults, PublishOutcome)
  /\ pc' = IF evIndex < Len(staticFiles) THEN "delay" ELSE "publishServers"
  /\ UNCHANGED <<error, result>>
  /\ UNCHANGED <<envVars, uploadVars, recordVars, evIndex, event, relayState,
                 sent, answers>>

\* publishStaticFileEvents returning after its first event
StaticFileEventSettled_SkipRest ==
  /\ pc = "broadcastFile"
  /\ AllSettled
  /\ IF ~hasSuccessOf(ProcessedResults)
     THEN /\ Throw("Failed to publish event to any relay")
          /\ UNCHANGED eventResults
     ELSE /\ eventResults' = Append(eventResults, PublishOutcome)
          /\ pc' = "publishServers"
          /\ UNCHANGED <<error, result>>
  /\ UNCHANGED <<envVars, uploadVars, recordVars, evIndex, event, relayState,
                 sent, answers>>

\* Promise.allSettled resolves for a kind 34128 event: publishEvent throws
\* when no relay accepted, otherwise its outcome is pushed to eventResults
StaticFileEventSettled ==
  /\ pc = "broadcastFile"
  /\ AllSettled
  /\ IF ~hasSuccessOf(ProcessedResults)
     THEN /\ Throw("Failed to publish event to any relay")
          /\ UNCHANGED eventResults
     ELSE /\ eventResults' = Append(eventResults, PublishOutcome)
          /\ pc' = IF evIndex < Len(staticFiles) THEN "delay" ELSE "publishServers"
          /\ UNCHANGED <<error, result>>
  /\ UNCHANGED <<envVars, uploadVars, recordVars, evIndex, event, relayState,
                 sent, answers>>

\* the 300 ms pause between two kind 34128 events
Delay ==
  /\ pc = "delay"
  /\ evIndex' = evIndex + 1
  /\ pc' = "publishFile"
  /\ UNCHANGED <<error, result, envVars, uploadVars, recordVars, event,
                 relayState, eventResults, sent, answers>>

\* publishUserServersEvent waiting until some relay takes the event
UserServersEventSettled_WaitForAccept ==
  /\ pc = "broadcastServers"
  /\ AllSettled
  /\ hasSuccessOf(ProcessedResults)
  /\ pc' = "done"
  /\ result' = [staticFileEventResults |-> eventResults,
                userServersEventResult |-> PublishOutcome,
                fileCount |-> Len(staticFiles),
                blossomResults |-> uploadResults]
  /\ UNCHANGED error
  /\ UNCHANGED <<envVars, uploadVars, recordVars, publishVars>>

\* Promise.allSettled resolves for the kind 10063 event; deployStaticSite
\* returns its DeploymentResult
UserServersEventSettled ==
  /\ pc = "broadcastServers"
  /\ AllSettled
  /\ IF ~hasSuccessOf(ProcessedResults)
     THEN Throw("Failed to publish event to any relay")
     ELSE /\ pc' = "done"
          /\ result' = [staticFileEventResults |-> eventResults,
                        userServersEventResult |-> PublishOutcome,
                        fileCount |-> Len(staticFiles),
                        blossomResults |-> uploadResults]
          /\ UNCHANGED error
  /\ UNCHANGED <<envVars, uploadVars, recordVars, publishVars>>

Next ==
  \/ ValidateBuildDirectory
  \/ GetNpubSubdomain
  \/ UploadDirectory
  \/ \E i \in FileIds : ReadFile(i)
  \/ \E i \in FileIds : \E k \in 1..Len(attempts[i]) : AttemptReadFile(i, k)
  \/ \E i \in FileIds : \E k \in 1..Len(attempts[i]) : GetBlobAnswer(i, k)
  \/ \E i \in FileIds : \E k \in 1..Len(attempts[i]) : HeadAnswer(i, k)
  \/ \E i \in FileIds : \E k \in 1..Len(attempts[i]) : CreateBlossomAuthEvent(i, k)
  \/ \E i \in FileIds : \E k \in 1..Len(attempts[i]) : PutAnswer(i, k)
  \/ UploadDirectoryReturn
  \/ BuildStaticFiles
  \/ CollectSuccessfulServers
  \/ PublishStaticFileEvent
  \/ \E k \in 1..Len(relayState) : RelayAnswer(k)
  \/ StaticFileEventSettled
  \/ Delay
  \/ PublishUserServersEvent
  \/ UserServersEventSettled

Spec == Init /\ [][Next]_vars

\* a deployment of a build directory that holds index.html, app.js, both or
\* neither
InitAnswered ==
  /\ Init
  /\ Range(tree) \subseteq {IndexHtml, AppJs}

\* every request is answered and every continuation is run: a step that is
\* possible is eventually taken
SpecAnswered == InitAnswered /\ [][Next]_vars /\ WF_vars(Next)

\* a deployment to two relays that refuse with a message naming the cause
InitRelayErrors ==
  /\ config = UserConfig("sk", "pk", <<RelayA, RelayB>>, <<DefaultServer>>)
  /\ dirExists \in BOOLEAN
  /\ tree \in Trees
  /\ Range(tree) \subseteq {IndexHtml, AppJs}
  /\ rewritten = {}
  /\ relayError \in RelayErrors
  /\ miner = MinerIdle
  /\ normalizing = NoPath
  /\ envFile = NoConfigManager
  /\ cm = NoConfigManager
  /\ Constructed

SpecRelayErrors == InitRelayErrors /\ [][Next]_vars

\* ------------------------------------------------- the proof-of-work miner
\* width of an event identifier in bits
IdBits == 4

\* the largest target difficulty an identifier can meet
MaxDifficulty == IdBits

IsNonceTag(tag) == tag[1] = "nonce"

IsOtherTag(tag) == tag[1] # "nonce"

\* the event with its nonce tag appended, or replaced when it has one
WithNonce(e, nonce, target) ==
  [e EXCEPT !.tags = Append(SelectSeq(@, IsOtherTag), <<"nonce", nonce, target>>)]

\* the event without its nonce tag
WithoutNonce(e) == [e EXCEPT !.tags = SelectSeq(@, IsOtherTag)]

NonceTags(e) == SelectSeq(e.tags, IsNonceTag)

\* the unsigned events handed to the miner: the two kinds of event a
\* deployment publishes, one of them carrying the nonce tag of an earlier run
UnsignedEvents ==
  {StaticFileEvent([path |-> normalizeFilePath(IndexHtml), sha256 |-> Sha256[IndexHtml]]),
   StaticFileEvent([path |-> normalizeFilePath(AppJs), sha256 |-> Sha256[AppJs]]),
   UserServersEvent(<<DefaultServer>>),
   WithNonce(UserServersEvent(<<ServerA>>), 7, 1)}

\* digest of the serialization of an event without its nonce tag
Serialized(e) ==
  IF e.kind = KindUserServers
  THEN (IF e.tags[1][2] = DefaultServer THEN 4 ELSE 11)
  ELSE (IF e.tags[2][2] = Sha256[IndexHtml] THEN 9 ELSE 13)

\* the identifier of an event: a deterministic digest of its serialization,
\* which every change of the nonce tag changes
Identifier(e) ==
  LET base == Serialized(WithoutNonce(e))
      tags == NonceTags(e)
  IN IF Len(tags) = 0 THEN base % (2 ^ IdBits)
     ELSE (base + 5 * tags[1][2] + 3 * tags[1][3] + 1) % (2 ^ IdBits)

\* number of leading zero bits of an identifier of IdBits bits
RECURSIVE CountLeadingZeroBits(_, _)
CountLeadingZeroBits(id, bits) ==
  IF bits = 0 THEN 0
  ELSE IF id >= 2 ^ (bits - 1) THEN 0
  ELSE 1 + CountLeadingZeroBits(id, bits - 1)

LeadingZeroBits(id) == CountLeadingZeroBits(id, IdBits)

\* an unsigned event and a target difficulty are handed to the miner
MinerInit ==
  /\ config = PowEnabled(UserConfig("sk", "pk", <<RelayA>>, <<DefaultServer>>))
  /\ dirExists = TRUE
  /\ tree = <<IndexHtml>>
  /\ rewritten = {}
  /\ Constructed
  /\ normalizing = NoPath
  /\ envFile = NoConfigManager
  /\ cm = NoConfigManager
  /\ relayError = Rejected
  /\ \E e \in UnsignedEvents, target \in 0..MaxDifficulty, timeout \in BOOLEAN :
       miner = [pc |-> "idle", event |-> e, target |-> target,
                timeout |-> timeout, nonce |-> 0, result |-> NoEvent]

deploymentVars == <<pc, error, result, config, dirExists, tree, rewritten,
                    uploadVars, recordVars, publishVars, relayError,
                    normalizing, envFile, cm>>

\* the search starts at the initial nonce
MineStart ==
  /\ miner.pc = "idle"
  /\ miner' = [miner EXCEPT !.pc = "mining", !.nonce = 0]
  /\ UNCHANGED deploymentVars

\* one candidate accepted one bit short of the target
MineTry_OneBitShort ==
  /\ miner.pc = "mining"
  /\ LET candidate == WithNonce(miner.event, miner.nonce, miner.target)
     IN IF LeadingZeroBits(Identifier(candidate)) + 1 >= miner.target
        THEN miner' = [miner EXCEPT !.pc = "mined", !.result = candidate]
        ELSE miner' = [miner EXCEPT !.nonce = @ + 1]
  /\ UNCHANGED deploymentVars

\* one candidate: the event with the nonce tag of the current nonce is the
\* result when its identifier meets the target, else the next nonce is tried
MineTry ==
  /\ miner.pc = "mining"
  /\ LET candidate == WithNonce(miner.event, miner.nonce, miner.target)
     IN IF LeadingZeroBits(Identifier(candidate)) >= miner.target
        THEN miner' = [miner EXCEPT !.pc = "mined", !.result = candidate]
        ELSE miner' = [miner EXCEPT !.nonce = @ + 1]
  /\ UNCHANGED deploymentVars

\* the timeout elapses before a qualifying nonce is found: PowTimeout
MineTimeout ==
  /\ miner.pc = "mining"
  /\ miner.timeout
  /\ miner' = [miner EXCEPT !.pc = "timeout"]
  /\ UNCHANGED deploymentVars

MinerNext ==
  \/ MineStart
  \/ MineTry
  \/ MineTimeout

SpecMiner == MinerInit /\ [][MinerNext]_vars

\* ------------------------------------------------------ normalizeFilePath
\* longest path handed to normalizeFilePath, in tokens
MaxPathLen == 3

\* the paths of at most MaxPathLen pieces (names and the two separators),
\* Windows- or Unix-style
Paths ==
  UNION {[1..n -> {"assets", "app.js", "/", "\\"}] : n \in 0..MaxPathLen}

\* a path is handed to normalizeFilePath
NormalizeInit ==
  /\ config = UserConfig("sk", "pk", <<RelayA>>, <<DefaultServer>>)
  /\ dirExists = TRUE
  /\ tree = <<IndexHtml>>
  /\ rewritten = {}
  /\ Constructed
  /\ relayError = Rejected
  /\ miner = MinerIdle
  /\ envFile = NoConfigManager
  /\ cm = NoConfigManager
  /\ \E path \in Paths :
       normalizing = [pc |-> "path", path |-> path, once |-> << >>, twice |-> << >>]

normalizeFrame == <<pc, error, result, config, dirExists, tree, rewritten,
                    uploadVars, recordVars, publishVars, relayError, miner,
                    envFile, cm>>

\* normalizeFilePath(path)
NormalizePath ==
  /\ normalizing.pc = "path"
  /\ normalizing' = [normalizing EXCEPT !.pc = "once",
                                        !.once = normalizeFilePath(normalizing.path)]
  /\ UNCHANGED normalizeFrame

\* normalizeFilePath of what normalizeFilePath returned
NormalizeAgain ==
  /\ normalizing.pc = "once"
  /\ normalizing' = [normalizing EXCEPT !.pc = "twice",
                                        !.twice = normalizeFilePath(normalizing.once)]
  /\ UNCHANGED normalizeFrame

NormalizeNext ==
  \/ NormalizePath
  \/ NormalizeAgain

SpecNormalize == NormalizeInit /\ [][NormalizeNext]_vars

\* ------------------------------------------------- ConfigManager: env file
\* an optional field that is set
Has(object, field) == field \in DOMAIN object

\* object[field] = value, for a field the object may not have yet
Put(object, field, value) ==
  [f \in DOMAIN object \cup {field} |-> IF f = field THEN value ELSE object[f]]

\* a line KEY=value of the env file; the value is the pieces of its text
Line(key, value) == [key |-> key, value |-> value]

\* a comment line and an empty line
Comment(text) == [key |-> "#", value |-> <<text>>]
Blank == [key |-> "", value |-> << >>]

\* `${n}` of a digit
DigitChar(d) == <<"0", "1", "2", "3", "4", "5", "6", "7", "8", "9">>[d + 1]

\* `${n}` of a number that is not negative
RECURSIVE NumberToString(_)
NumberToString(n) ==
  IF n < 10 THEN <<DigitChar(n)>>
  ELSE NumberToString(n \div 10) \o <<DigitChar(n % 10)>>

DigitValue(piece) == CHOOSE d \in 0..9 : piece = DigitChar(d)

\* value of the first n pieces, all digits
RECURSIVE DigitsValue(_, _)
DigitsValue(text, n) ==
  IF n = 0 THEN 0 ELSE DigitsValue(text, n - 1) * 10 + DigitValue(text[n])

\* the digits text starts with
LeadingDigits(text) ==
  LET IsDigit(piece) == \E d \in 0..9 : piece = DigitChar(d)
  IN IF \A n \in 1..Len(text) : IsDigit(text[n]) THEN Len(text)
     ELSE (CHOOSE n \in 1..Len(text) :
             /\ ~IsDigit(text[n])
             /\ \A m \in 1..(n - 1) : IsDigit(text[m])) - 1

\* parseInt(text, 10): << >> is NaN
parseInt(text) ==
  IF LeadingDigits(text) = 0 THEN << >>
  ELSE <<DigitsValue(text, LeadingDigits(text))>>

\* a || b for a number a: b when a is NaN or 0
OrElse(number, fallback) ==
  IF number = << >> \/ number = <<0>> THEN fallback ELSE number

\* relays.join(',')
RECURSIVE Join(_, _)
Join(list, n) ==
  IF n = 0 THEN << >>
  ELSE IF n = 1 THEN <<list[1]>>
  ELSE Join(list, n - 1) \o <<",", list[n]>>

\* text.trim(): spaces at both ends go
RECURSIVE Trim(_)
Trim(text) ==
  IF Len(text) = 0 THEN text
  ELSE IF text[1] = " " THEN Trim(Tail(text))
  ELSE IF text[Len(text)] = " " THEN Trim(SubSeq(text, 1, Len(text) - 1))
  ELSE text

\* value.replace(/^["']|["']$/g, ''): one quote at each end goes
StripQuotes(text) ==
  LET IsQuote(piece) == piece \in {"\"", "'"}
      head == IF Len(text) > 0 /\ IsQuote(text[1]) THEN Tail(text) ELSE text
  IN IF Len(head) > 0 /\ IsQuote(head[Len(head)])
     THEN SubSeq(head, 1, Len(head) - 1)
     ELSE head

\* the string a text of one piece stands for ('' for no piece)
StringOf(text) == IF Len(text) = 0 THEN "" ELSE text[1]

\* cleanValue.split(',').map((r) => r.trim()), for relays of one piece each
RECURSIVE SplitRelays(_)
SplitRelays(text) ==
  IF Len(text) = 0 THEN <<"">>
  ELSE LET comma == IndexOf(text, <<",">>)
       IN IF comma = 0 THEN <<StringOf(Trim(text))>>
          ELSE <<StringOf(Trim(SubSeq(text, 1, comma - 1)))>>
                 \o SplitRelays(SubSeq(text, comma + 1, Len(text)))

\* a truthy string
Truthy(string) == string # ""

\* the pow block generateEnvContent writes and parseEnvFile starts from
DefaultPow == [enabled |-> TRUE, targetDifficulty |-> DefaultTargetDifficulty]

\* ConfigManager.generateEnvContent
generateEnvContent(c) ==
  LET powConfig == IF Has(c, "nostr") /\ Has(c.nostr, "pow") THEN c.nostr.pow
                   ELSE DefaultPow
  IN <<Comment("Nostr Deploy CLI Configuration"),
       Comment("This file contains sensitive information"),
       Blank,
       Comment("Nostr Authentication")>>
     \o (IF Has(c, "nostr") /\ Has(c.nostr, "privateKey") /\ Truthy(c.nostr.privateKey)
         THEN <<Line("NOSTR_PRIVATE_KEY", <<c.nostr.privateKey>>)>> ELSE << >>)
     \o (IF Has(c, "nostr") /\ Truthy(c.nostr.publicKey)
         THEN <<Line("NOSTR_PUBLIC_KEY", <<c.nostr.publicKey>>)>> ELSE << >>)
     \o (IF Has(c, "nostr") /\ Len(c.nostr.relays) > 0
         THEN <<Line("NOSTR_RELAYS", Join(c.nostr.relays, Len(c.nostr.relays)))>>
         ELSE << >>)
     \o <<Blank,
          Comment("Proof of Work Configuration"),
          Line("NOSTR_POW_ENABLED",
               IF powConfig.enabled THEN <<"true">> ELSE <<"false">>),
          Line("NOSTR_POW_DIFFICULTY", NumberToString(powConfig.targetDifficulty))>>
     \o (IF Has(powConfig, "timeout") /\ powConfig.timeout # 0
         THEN <<Line("NOSTR_POW_TIMEOUT", NumberToString(powConfig.timeout))>>
         ELSE << >>)
     \o <<Blank, Comment("Blossom File Storage")>>
     \o (IF Has(c, "blossom") /\ Truthy(c.blossom.serverUrl)
         THEN <<Line("BLOSSOM_SERVER_URL", <<c.blossom.serverUrl>>)>> ELSE << >>)
     \o <<Blank, Comment("Deployment Settings")>>
     \o (IF Has(c, "deployment") /\ Truthy(c.deployment.baseDomain)
         THEN <<Line("BASE_DOMAIN", <<c.deployment.baseDomain>>)>> ELSE << >>)

\* the configuration parseEnvFile starts from
EmptyConfig ==
  [nostr |-> [publicKey |-> "", relays |-> << >>, pow |-> DefaultPow],
   blossom |-> [serverUrl |-> ""],
   deployment |-> [baseDomain |-> ""]]

\* pow with its timeout set to what parseInt(cleanValue, 10) || undefined gives
WithTimeout(pow, number) ==
  IF number = << >>
  THEN [enabled |-> pow.enabled, targetDifficulty |-> pow.targetDifficulty]
  ELSE [enabled |-> pow.enabled, targetDifficulty |-> pow.targetDifficulty,
        timeout |-> number[1]]

\* the switch of parseEnvFile for one line
ParseLine(c, line) ==
  LET cleanValue == StripQuotes(Trim(line.value))
  IN CASE line.key = "NOSTR_PRIVATE_KEY" ->
            [c EXCEPT !.nostr = Put(@, "privateKey", StringOf(cleanValue))]
       [] line.key = "NOSTR_PUBLIC_KEY" ->
            [c EXCEPT !.nostr.publicKey = StringOf(cleanValue)]
       [] line.key = "NOSTR_RELAYS" ->
            [c EXCEPT !.nostr.relays = IF Len(cleanValue) > 0
                                       THEN SplitRelays(cleanValue) ELSE << >>]
       [] line.key = "NOSTR_POW_ENABLED" ->
            [c EXCEPT !.nostr.pow.enabled = (cleanValue = <<"true">>)]
       [] line.key = "NOSTR_POW_DIFFICULTY" ->
            [c EXCEPT !.nostr.pow.targetDifficulty =
                        OrElse(parseInt(cleanValue), <<DefaultTargetDifficulty>>)[1]]
       [] line.key = "NOSTR_POW_TIMEOUT" ->
            [c EXCEPT !.nostr.pow = WithTimeout(@, OrElse(parseInt(cleanValue), << >>))]
       [] line.key = "BLOSSOM_SERVER_URL" ->
            [c EXCEPT !.blossom.serverUrl = StringOf(cleanValue)]
       [] line.key = "BASE_DOMAIN" ->
            [c EXCEPT !.deployment.baseDomain = StringOf(cleanValue)]
       [] OTHER -> c

\* parseEnvFile after the first n lines
RECURSIVE ParseLines(_, _)
ParseLines(content, n) ==
  IF n = 0 THEN EmptyConfig
  ELSE ParseLine(ParseLines(content, n - 1), content[n])

\* ConfigManager.parseEnvFile
parseEnvFile(content) == ParseLines(content, Len(content))

\* largest proof-of-work difficulty of a stored configuration, beside the
\* default
MaxStoredDifficulty == 2

\* pow blocks a configuration can hold (a timeout of 0 is "no timeout")
PowBlocks ==
  LET difficulties == 0..MaxStoredDifficulty \cup {DefaultTargetDifficulty}
  IN [enabled : BOOLEAN, targetDifficulty : difficulties]
       \cup [enabled : BOOLEAN, targetDifficulty : difficulties, timeout : {5000}]

\* nostr blocks a configuration can hold
NostrBlocks ==
  LET relayLists == {<< >>, <<RelayA>>, <<RelayA, RelayB>>}
  IN [publicKey : {"", "pk"}, relays : relayLists, pow : PowBlocks]
       \cup [privateKey : {"sk"}, publicKey : {"", "pk"}, relays : relayLists,
             pow : PowBlocks]

\* the configurations a ConfigManager can hold after loadConfig and setters
StoredConfigs ==
  [nostr : NostrBlocks,
   blossom : [serverUrl : {"", ServerA}],
   deployment : [baseDomain : {"", "nostrdeploy.com"}]]

\* a configuration about to be saved
EnvFileInit ==
  /\ config = UserConfig("sk", "pk", <<RelayA>>, <<DefaultServer>>)
  /\ dirExists = TRUE
  /\ tree = <<IndexHtml>>
  /\ rewritten = {}
  /\ Constructed
  /\ relayError = Rejected
  /\ miner = MinerIdle
  /\ normalizing = NoPath
  /\ cm = NoConfigManager
  /\ \E c \in StoredConfigs : envFile = [pc |-> "config", config |-> c]

envFileFrame == <<pc, error, result, config, dirExists, tree, rewritten,
                  uploadVars, recordVars, publishVars, relayError, miner,
                  normalizing, cm>>

\* saveConfig: the env file is written from the configuration
SaveEnvFile ==
  /\ envFile.pc = "config"
  /\ envFile' = [pc |-> "saved", config |-> envFile.config,
                 content |-> generateEnvContent(envFile.config)]
  /\ UNCHANGED envFileFrame

\* loadConfig of the next process: the env file is parsed
LoadEnvFile ==
  /\ envFile.pc = "saved"
  /\ envFile' = [pc |-> "loaded", config |-> envFile.config,
                 content |-> envFile.content,
                 loaded |-> parseEnvFile(envFile.content)]
  /\ UNCHANGED envFileFrame

EnvFileNext ==
  \/ SaveEnvFile
  \/ LoadEnvFile

SpecEnvFile == EnvFileInit /\ [][EnvFileNext]_vars

\* ------------------------------------------- ConfigManager: the singleton
\* { ...a, ...b }
Spread(a, b) ==
  [f \in DOMAIN a \cup DOMAIN b |-> IF f \in DOMAIN b THEN b[f] ELSE a[f]]

\* the configuration loadConfig builds when there is no env file
DefaultConfig ==
  [nostr |-> [publicKey |-> "",
              relays |-> <<"wss://nos.lol", "wss://ditto.pub/relay",
                           "wss://relay.damus.io">>,
              pow |-> DefaultPow],
   blossom |-> [serverUrl |-> DefaultServer],
   deployment |-> [baseDomain |-> "nostrdeploy.com"]]

\* this.config.nostr, created by a setter when it is missing
NostrOf(c) == IF Has(c, "nostr") THEN c.nostr ELSE [publicKey |-> "", relays |-> << >>]

\* ConfigManager.updateConfig, before saveConfig
updateConfig(c, updates) == Spread(c, updates)

\* ConfigManager.setNostrKey, before saveConfig
setNostrKey(c, privateKey, publicKey) ==
  Put(c, "nostr", Put(Put(NostrOf(c), "privateKey", privateKey),
                      "publicKey", publicKey))

\* ConfigManager.setNostrRelays, before saveConfig
setNostrRelays(c, relays) == Put(c, "nostr", Put(NostrOf(c), "relays", relays))

\* ConfigManager.setNostrPow, before saveConfig; timeout is << >> when the
\* third argument is undefined
setNostrPow(c, enabled, targetDifficulty, timeout) ==
  Put(c, "nostr",
      Put(NostrOf(c), "pow",
          WithTimeout([enabled |-> enabled, targetDifficulty |-> targetDifficulty],
                      timeout)))

\* ConfigManager.setBlossomServer, before saveConfig
setBlossomServer(c, serverUrl) ==
  Put(c, "blossom",
      Put(IF Has(c, "blossom") THEN c.blossom ELSE [serverUrl |-> ""],
          "serverUrl", serverUrl))

\* ConfigManager.setBaseDomain, before saveConfig
setBaseDomain(c, baseDomain) ==
  Put(c, "deployment",
      Put(IF Has(c, "deployment") THEN c.deployment
          ELSE [baseDomain |-> "nostrdeploy.com"],
          "baseDomain", baseDomain))

\* calls of the mutators: the test's partial update, an update of one
\* section, and each setter
MutatorCalls ==
  {[name |-> "updateConfig",
    updates |-> [nostr |-> [publicKey |-> "test-public-key",
                            relays |-> <<"wss://test-relay.com">>]]],
   [name |-> "updateConfig",
    updates |-> [deployment |-> [baseDomain |-> "example.com"]]],
   [name |-> "setNostrKey", privateKey |-> "sk2", publicKey |-> "pk2"],
   [name |-> "setNostrRelays", relays |-> <<RelayB>>],
   [name |-> "setNostrPow", enabled |-> FALSE, targetDifficulty |-> 0,
    timeout |-> << >>],
   [name |-> "setNostrPow", enabled |-> TRUE, targetDifficulty |-> 1,
    timeout |-> <<5000>>],
   [name |-> "setBlossomServer", serverUrl |-> ServerB],
   [name |-> "setBaseDomain", baseDomain |-> "example.com"]}

\* this.config after the synchronous part of a mutator
Mutated(c, call) ==
  CASE call.name = "updateConfig" -> updateConfig(c, call.updates)
    [] call.name = "setNostrKey" -> setNostrKey(c, call.privateKey, call.publicKey)
    [] call.name = "setNostrRelays" -> setNostrRelays(c, call.relays)
    [] call.name = "setNostrPow" ->
         setNostrPow(c, call.enabled, call.targetDifficulty, call.timeout)
    [] call.name = "setBlossomServer" -> setBlossomServer(c, call.serverUrl)
    [] call.name = "setBaseDomain" -> setBaseDomain(c, call.baseDomain)

\* the settings performAutoSetup writes for what is missing
SetupDefaults ==
  [relays |-> <<"wss://relay.nostr.band">>,
   serverUrl |-> "https://blossom.primal.net",
   baseDomain |-> "nostrdeploy.com"]

\* the configurations whose env file a project directory may hold: a full
\* one, a read-only identity without relays, settings without any key, and
\* one with neither keys nor settings
ProjectConfigs ==
  {[nostr |-> [privateKey |-> "sk", publicKey |-> "pk", relays |-> <<RelayA>>,
               pow |-> [enabled |-> FALSE, targetDifficulty |-> 1,
                        timeout |-> 5000]],
    blossom |-> [serverUrl |-> ServerA],
    deployment |-> [baseDomain |-> "my.domain"]],
   [nostr |-> [publicKey |-> "pk", relays |-> << >>, pow |-> DefaultPow],
    blossom |-> [serverUrl |-> ""],
    deployment |-> [baseDomain |-> ""]],
   [nostr |-> [publicKey |-> "", relays |-> <<RelayA, RelayB>>, pow |-> DefaultPow],
    blossom |-> [serverUrl |-> ServerA],
    deployment |-> [baseDomain |-> ""]],
   EmptyConfig}

\* what the project directory holds at .env.nostr-deploy.local: no file, or
\* a file saved earlier
ProjectFiles ==
  {[exists |-> FALSE, content |-> << >>]}
    \cup {[exists |-> TRUE, content |-> generateEnvContent(c)] :
            c \in ProjectConfigs}

\* a caller of ConfigManager.getInstance about to call it: a command that
\* then calls one mutator, or performAutoSetup
Caller(program) ==
  [program |-> program, pc |-> "start", returned |-> 0, call |-> [name |-> ""],
   writing |-> << >>, next |-> "", hadFile |-> FALSE, before |-> << >>,
   generated |-> FALSE]

\* a process whose module was just loaded: no instance yet; two commands
\* whose getInstance calls may overlap, or deploy --skip-setup alone
ConfigInit ==
  /\ config = UserConfig("sk", "pk", <<RelayA>>, <<DefaultServer>>)
  /\ dirExists = TRUE
  /\ tree = <<IndexHtml>>
  /\ rewritten = {}
  /\ Constructed
  /\ relayError = Rejected
  /\ miner = MinerIdle
  /\ normalizing = NoPath
  /\ envFile = NoConfigManager
  /\ \E file \in ProjectFiles :
     \E callers \in {<<Caller("mutate"), Caller("mutate")>>,
                      <<Caller("autoSetup")>>} :
       cm = [pc |-> "running", file |-> file, instance |-> 0, created |-> 0,
             initialized |-> FALSE, config |-> << >>, loads |-> 0,
             lost |-> FALSE, callers |-> callers]

configFrame == <<pc, error, result, config, dirExists, tree, rewritten,
                 uploadVars, recordVars, publishVars, relayError, miner,
                 normalizing, envFile>>

CallerIds == IF cm.pc = "running" THEN 1..Len(cm.callers) ELSE {}

\* loadConfig assigns this.config; getInstance sets initialized and returns
\* ConfigManager.instance (lost: a caller had changed what is replaced)
Loaded(c, loaded) ==
  cm' = [cm EXCEPT !.config = loaded,
                   !.initialized = TRUE,
                   !.lost = @ \/ /\ \E d \in CallerIds : cm.callers[d].call.name # ""
                                 /\ loaded # cm.config,
                   !.callers[c].pc = "got",
                   !.callers[c].returned = cm.instance]

\* getInstance constructing a ConfigManager on every call
GetInstance_AlwaysNew(c) ==
  /\ c \in CallerIds
  /\ cm.callers[c].pc = "start"
  /\ cm' = [cm EXCEPT !.instance = cm.created + 1,
                      !.created = @ + 1,
                      !.initialized = FALSE,
                      !.config = << >>,
                      !.loads = @ + 1,
                      !.callers[c].pc = "pathExists"]
  /\ UNCHANGED configFrame

\* getInstance up to its await: the instance is constructed if there is
\* none, and loadConfig is started unless the instance is initialized
GetInstance(c) ==
  /\ c \in CallerIds
  /\ cm.callers[c].pc = "start"
  /\ LET constructed == IF cm.instance = 0
                        THEN [cm EXCEPT !.instance = cm.created + 1,
                                        !.created = @ + 1,
                                        !.initialized = FALSE,
                                        !.config = << >>]
                        ELSE cm
     IN IF ~constructed.initialized
        THEN cm' = [constructed EXCEPT !.loads = @ + 1,
                                       !.callers[c].pc = "pathExists"]
        ELSE cm' = [constructed EXCEPT !.callers[c].pc = "got",
                                       !.callers[c].returned = constructed.instance]
  /\ UNCHANGED configFrame

\* loadConfig, answer of fs.pathExists: without a file the default
\* configuration is built
PathExistsAnswer(c) ==
  /\ c \in CallerIds
  /\ cm.callers[c].pc = "pathExists"
  /\ IF cm.file.exists
     THEN cm' = [cm EXCEPT !.callers[c].pc = "readFile"]
     ELSE Loaded(c, DefaultConfig)
  /\ UNCHANGED configFrame

\* loadConfig, answer of fs.readFile: the content is parsed
ReadFileAnswer(c) ==
  /\ c \in CallerIds
  /\ cm.callers[c].pc = "readFile"
  /\ Loaded(c, parseEnvFile(cm.file.content))
  /\ UNCHANGED configFrame

\* a mutator is called on the instance getInstance returned: this.config is
\* changed and saveConfig starts writing the env file
Mutate(c) ==
  /\ c \in CallerIds
  /\ cm.callers[c].program = "mutate"
  /\ cm.callers[c].pc = "got"
  /\ \E call \in MutatorCalls :
       cm' = [cm EXCEPT !.config = Mutated(cm.config, call),
                        !.callers[c].call = call,
                        !.callers[c].writing =
                          generateEnvContent(Mutated(cm.config, call)),
                        !.callers[c].pc = "writeFile",
                        !.callers[c].next = "done"]
  /\ UNCHANGED configFrame

\* saveConfig, answer of fs.writeFile
WriteFileAnswer(c) ==
  /\ c \in CallerIds
  /\ cm.callers[c].pc = "writeFile"
  /\ cm' = [cm EXCEPT !.file = [exists |-> TRUE,
                                content |-> cm.callers[c].writing],
                      !.callers[c].pc = cm.callers[c].next]
  /\ UNCHANGED configFrame

\* userConfig.nostr?.publicKey || userConfig.nostr?.privateKey
HasAuth(c) ==
  /\ Has(c, "nostr")
  /\ \/ Truthy(c.nostr.publicKey)
     \/ Has(c.nostr, "privateKey") /\ Truthy(c.nostr.privateKey)

\* performAutoSetup calling a setter on manager m and awaiting its saveConfig
SetupCall(m, c, call, next) ==
  cm' = [m EXCEPT !.config = Mutated(m.config, call),
                  !.callers[c].writing = generateEnvContent(Mutated(m.config, call)),
                  !.callers[c].pc = "writeFile",
                  !.callers[c].next = next]

\* performAutoSetup from its check of the base domain on
SetupDomainStep(m, c) ==
  IF ~Has(m.config, "deployment") \/ ~Truthy(m.config.deployment.baseDomain)
  THEN SetupCall(m, c, [name |-> "setBaseDomain", baseDomain |-> SetupDefaults.baseDomain],
                 "done")
  ELSE cm' = [m EXCEPT !.callers[c].pc = "done"]

\* performAutoSetup from its check of the Blossom server on
SetupServerStep(m, c) ==
  IF ~Has(m.config, "blossom") \/ ~Truthy(m.config.blossom.serverUrl)
  THEN SetupCall(m, c, [name |-> "setBlossomServer", serverUrl |-> SetupDefaults.serverUrl],
                 "domain")
  ELSE SetupDomainStep(m, c)

\* performAutoSetup with an existing identity, from its check of the relays on
SetupRelaysStep(m, c) ==
  IF ~Has(m.config, "nostr") \/ Len(m.config.nostr.relays) = 0
  THEN SetupCall(m, c, [name |-> "setNostrRelays", relays |-> SetupDefaults.relays],
                 "server")
  ELSE SetupServerStep(m, c)

\* performAutoSetup, answer of hasLocalConfig: an existing identity is kept
\* and missing settings are filled in; otherwise a keypair is generated and
\* setNostrKey stores it
HasLocalConfigAnswer(c) ==
  /\ c \in CallerIds
  /\ cm.callers[c].program = "autoSetup"
  /\ cm.callers[c].pc = "got"
  /\ LET noted == [cm EXCEPT !.callers[c].hadFile = cm.file.exists,
                             !.callers[c].before = cm.config]
     IN IF cm.file.exists /\ HasAuth(cm.config)
        THEN SetupRelaysStep(noted, c)
        ELSE SetupCall([noted EXCEPT !.callers[c].generated = TRUE], c,
                       [name |-> "setNostrKey", privateKey |-> "new sk",
                        publicKey |-> "new pk"],
                       "defaultRelays")
  /\ UNCHANGED configFrame

\* performAutoSetup going on after a setter has saved
SetupContinue(c) ==
  /\ c \in CallerIds
  /\ cm.callers[c].program = "autoSetup"
  /\ cm.callers[c].pc \in {"defaultRelays", "server", "domain"}
  /\ CASE cm.callers[c].pc = "defaultRelays" ->
            SetupCall(cm, c, [name |-> "setNostrRelays", relays |-> SetupDefaults.relays],
                      "server")
       [] cm.callers[c].pc = "server" -> SetupServerStep(cm, c)
       [] cm.callers[c].pc = "domain" -> SetupDomainStep(cm, c)
  /\ UNCHANGED configFrame

ConfigNext ==
  \/ \E c \in CallerIds : GetInstance(c)
  \/ \E c \in CallerIds : PathExistsAnswer(c)
  \/ \E c \in CallerIds : ReadFileAnswer(c)
  \/ \E c \in CallerIds : Mutate(c)
  \/ \E c \in CallerIds : WriteFileAnswer(c)
  \/ \E c \in CallerIds : HasLocalConfigAnswer(c)
  \/ \E c \in CallerIds : SetupContinue(c)

SpecConfig == ConfigInit /\ [][ConfigNext]_vars

\* ================================================================= claims
NoFilesUploaded == "No files were successfully uploaded to any Blossom server"
NoServersAvailable == "No Blossom servers had successful uploads"
PublishFailed == "Failed to publish event to any relay"

\* the phase of the deployment state machine a position belongs to
PhaseOf(p) ==
  CASE p \in {"validate", "npub"} -> "Validating"
    [] p \in {"uploadDirectory", "uploading"} -> "Uploading"
    [] p \in {"buildRecords", "successfulServers"} -> "BuildingRecords"
    [] p \in {"publishFile", "broadcastFile", "delay", "publishServers",
              "broadcastServers"} -> "Publishing"
    [] p = "done" -> "Done"
    [] OTHER -> "Failed"

Broadcasting == pc \in {"broadcastFile", "broadcastServers"}

\* step 4 of deployStaticSite has run
RecordsBuilt ==
  \/ pc = "successfulServers"
  \/ PhaseOf(pc) \in {"Publishing", "Done"}
  \/ pc = "failed" /\ error \in {NoFilesUploaded, NoServersAvailable, PublishFailed,
                                 "No private key configured", "No relays configured"}

\* some server reported success for file i of the tree
FileSucceeded(i) ==
  /\ filePc[i] = "servers"
  /\ \E k \in 1..Len(attempts[i]) : attempts[i][k].pc = "ok"

\* the file record of file i of the tree
FileRecord(i) == [path |-> normalizeFilePath(tree[i]), sha256 |-> Sha256[tree[i]]]

HasFileRecord(i) == FileRecord(i) \in Range(staticFiles)

\* a kind 34128 event naming file i was broadcast
HasFileEvent(i) ==
  \E n \in 1..Len(sent) :
    /\ sent[n].event.kind = KindStaticFile
    /\ sent[n].event.tags[1] = <<"d", normalizeFilePath(tree[i])>>

\* C1: once the records are built, a file of the tree has a file record iff
\* one of its per-server outcomes is a success, and a file without a
\* successful server has no kind 34128 event.
C1_RecordIffSuccess ==
  RecordsBuilt =>
    \A i \in FileIds :
      /\ HasFileRecord(i) <=> FileSucceeded(i)
      /\ ~FileSucceeded(i) => ~HasFileEvent(i)

\* every relay answered the event being broadcast and none accepted it
ZeroAccepted ==
  /\ Broadcasting
  /\ AllSettled
  /\ \A k \in 1..Len(relayState) : relayState[k] # "accepted"

\* C2: an event accepted by zero relays makes the deployment fail with the
\* publish error without any further broadcast, and nothing is broadcast
\* once the deployment has failed.
C2_PublishFailureAborts ==
  [][/\ ZeroAccepted => pc' = "failed" /\ error' = PublishFailed /\ sent' = sent
     /\ pc = "failed" => pc' = "failed" /\ error' = error /\ sent' = sent]_vars

\* a per-file event found no relay: its successors were never broadcast
C2_Witness ==
  /\ pc = "failed"
  /\ error = PublishFailed
  /\ event.kind = KindStaticFile
  /\ Len(staticFiles) = 2
  /\ evIndex = 1
  /\ Len(sent) = Len(config.relays)

\* the outcomes publishEvent has returned so far
Outcomes ==
  Range(eventResults) \cup
    (IF result = NoResult THEN {} ELSE {result.userServersEventResult})

SomeAccepted == \E k \in 1..Len(relayState) : relayState[k] = "accepted"

\* C3: publishEvent returns an outcome iff some relay accepted the event;
\* with no accepting relay it throws and returns nothing, and every outcome
\* ever returned holds an accepting relay.
C3_OutcomeIffAccepted ==
  /\ [](\A o \in Outcomes : hasSuccessOf(o.relayResults))
  /\ [][(Broadcasting /\ pc' # pc) =>
          /\ (Outcomes' # Outcomes) <=> SomeAccepted
          /\ ~SomeAccepted => pc' = "failed" /\ error' = PublishFailed]_vars
  /\ [][(pc \in {"publishFile", "publishServers"} /\ pc' = "failed") =>
          Outcomes' = Outcomes /\ sent' = sent]_vars

\* an outcome was returned although a relay rejected the event
C3_Witness ==
  /\ pc = "publishServers"
  /\ Len(config.relays) = 2
  /\ relayState = <<"rejected", "accepted">>
  /\ Len(eventResults) = 1

\* the answer relay r gave to the event being broadcast
AnswerOf(r) == (CHOOSE a \in Range(answers) : a.relay = r).accepted

\* the outcome is the one of the broadcast event: one entry per configured
\* relay, in configured order, holding that relay's own answer
OutcomeMatches(o, e) ==
  /\ o.eventId = EventId(e)
  /\ Len(o.relayResults) = Len(config.relays)
  /\ \A k \in 1..Len(config.relays) :
       /\ o.relayResults[k].relay = config.relays[k]
       /\ o.relayResults[k].success = AnswerOf(config.relays[k])

\* C4: every configured relay is sent the event whatever the other relays
\* answer, and the outcome returned for the event holds one entry per
\* configured relay, in configured order, with that relay's own answer,
\* in whatever order the answers arrived.
C4_FanOutIndependence ==
  /\ [](Broadcasting =>
          /\ Len(relayState) = Len(config.relays)
          /\ \A k \in 1..Len(config.relays) :
               /\ [event |-> event, relay |-> config.relays[k]] \in Range(sent)
               /\ relayState[k] # "inflight" =>
                    /\ Cardinality({n \in 1..Len(answers) :
                                      answers[n].relay = config.relays[k]}) = 1
                    /\ (relayState[k] = "accepted") = AnswerOf(config.relays[k]))
  /\ [][(Broadcasting /\ Outcomes' # Outcomes) =>
          \A o \in Outcomes' \ Outcomes : OutcomeMatches(o, event)]_vars

\* relay B rejected first, relay A accepted afterwards, and the outcome lists
\* A (success) before B (failure)
C4_Witness ==
  /\ Len(eventResults) = 1
  /\ answers = <<[relay |-> RelayB, accepted |-> FALSE],
                 [relay |-> RelayA, accepted |-> TRUE]>>
  /\ eventResults[1].relayResults =
       <<[relay |-> RelayA, success |-> TRUE, error |-> NoError],
         [relay |-> RelayB, success |-> FALSE, error |-> Rejected]>>

\* uploadFiles has settled and no file succeeded on any server
AllFilesFailed ==
  /\ files # << >>
  /\ \A i \in FileIds : FileDone(i) /\ ~FileSucceeded(i)

\* C5: when every file failed on every server, nothing is ever broadcast and
\* the deployment ends failed with the no-files-uploaded error.
C5_ZeroEligibleFiles ==
  AllFilesFailed =>
    /\ sent = << >>
    /\ pc \notin {"uploading", "buildRecords"} =>
         pc = "failed" /\ error = NoFilesUploaded

\* two files, both refused by the server they were sent to
C5_Witness ==
  /\ pc = "failed"
  /\ error = NoFilesUploaded
  /\ Len(files) = 2
  /\ \A i \in FileIds :
       filePc[i] = "servers" /\ Len(attempts[i]) > 0 /\
       \A k \in 1..Len(attempts[i]) : attempts[i][k].error = "Upload failed"

\* the files of the tree some server reported success for
Succeeded == {i \in FileIds : FileSucceeded(i)}

\* C6: with N files of which k (1 <= k < N) succeeded on some server, the
\* deployment does not fail in record building and holds exactly the k
\* records of those files.
C6_PartialSuccessPublishes ==
  (RecordsBuilt /\ 1 <= Cardinality(Succeeded)
                /\ Cardinality(Succeeded) < Len(files)) =>
    /\ error \notin {NoFilesUploaded, NoServersAvailable}
    /\ Len(staticFiles) = Cardinality(Succeeded)
    /\ \A i \in Succeeded : HasFileRecord(i)

\* positions in `sent` of the broadcasts of one kind
SentOfKind(kind) == {n \in 1..Len(sent) : sent[n].event.kind = kind}

UploadInFlight ==
  \E i \in FileIds :
    \/ filePc[i] = "read"
    \/ \E k \in 1..Len(attempts[i]) : ~AttemptDone(attempts[i][k])

\* C7: when the kind 10063 event is broadcast, every upload outcome is known,
\* every file record's kind 34128 event has been broadcast before it and its
\* publishEvent has returned; no upload and no per-file publish is pending.
C7_ServerListLast ==
  SentOfKind(KindUserServers) # {} =>
    /\ pc \in {"broadcastServers", "done", "failed"}
    /\ ~UploadInFlight
    /\ Len(eventResults) = Len(staticFiles)
    /\ \A j \in 1..Len(staticFiles) :
         /\ eventResults[j].eventId = EventId(StaticFileEvent(staticFiles[j]))
         /\ \E m \in SentOfKind(KindStaticFile) :
              sent[m].event = StaticFileEvent(staticFiles[j])
    /\ \A n \in SentOfKind(KindUserServers), m \in SentOfKind(KindStaticFile) :
         m < n

\* the server list is on its way after two per-file events
C7_Witness ==
  /\ pc = "broadcastServers"
  /\ Len(staticFiles) = 2
  /\ \E k \in 1..Len(relayState) : relayState[k] = "inflight"

\* a deployment of three files in which the storage servers change between
\* the files: app.js, index.html and sub/index.html, listed in that order
InitThreeFiles ==
  /\ config = UserConfig("sk", "pk", <<RelayA>>, <<ServerA, ServerB>>)
  /\ dirExists = TRUE
  /\ tree = <<AppJs, IndexHtml, SubIndexHtml>>
  /\ rewritten = {}
  /\ relayError = Rejected
  /\ miner = MinerIdle
  /\ normalizing = NoPath
  /\ envFile = NoConfigManager
  /\ cm = NoConfigManager
  /\ Constructed

SpecThreeFiles == InitThreeFiles /\ [][Next]_vars

\* the servers that reported success for some file of the tree
SuccessfulServerSet ==
  UNION {{attempts[i][k].server :
            k \in {n \in 1..Len(attempts[i]) : attempts[i][n].pc = "ok"}} :
         i \in FileIds}

\* C8: the tags of a broadcast kind 10063 event are one ["server", url] per
\* server that reported success for some file, each url once.
C8_ServerListExact ==
  \A n \in SentOfKind(KindUserServers) :
    LET tags == sent[n].event.tags
    IN /\ \A t \in 1..Len(tags) : tags[t][1] = "server"
       /\ {tags[t][2] : t \in 1..Len(tags)} = SuccessfulServerSet
       /\ NoRepeat(tags)

\* broadcasts of event e to relay r
Broadcasts(e, r) == {n \in 1..Len(sent) : sent[n] = [event |-> e, relay |-> r]}

\* C9: a deployment that is Done has broadcast, to every relay, exactly one
\* kind 34128 event per file with a successful server, tagged d = normalized
\* path and x = sha256 with empty content, no other kind 34128 event, and
\* exactly one kind 10063 event; fileCount counts the per-file outcomes.
C9_OneEventPerEligibleFile ==
  pc = "done" =>
    /\ \A i \in Succeeded : \A r \in Range(config.relays) :
         Cardinality(Broadcasts(StaticFileEvent(FileRecord(i)), r)) = 1
    /\ \A n \in SentOfKind(KindStaticFile) :
         \E i \in Succeeded : sent[n].event = StaticFileEvent(FileRecord(i))
    /\ Cardinality(SentOfKind(KindUserServers)) = Len(config.relays)
    /\ result.fileCount = Len(result.staticFileEventResults)

\* phases in the order of the state machine
PhaseRank(phase) ==
  CASE phase = "Validating" -> 1
    [] phase = "Uploading" -> 2
    [] phase = "BuildingRecords" -> 3
    [] phase = "Publishing" -> 4
    [] phase = "Done" -> 5
    [] OTHER -> 6

Terminal == pc \in {"done", "failed"}

\* C10: every step stays in its phase, enters the next phase or fails; Done
\* and Failed are left by no step, and in them no upload and no relay
\* publish is pending or started.
C10_PhaseOrder ==
  /\ [][/\ \/ PhaseOf(pc') = PhaseOf(pc)
           \/ PhaseOf(pc') = "Failed"
           \/ PhaseRank(PhaseOf(pc')) = PhaseRank(PhaseOf(pc)) + 1
        /\ Terminal => pc' = pc /\ attempts' = attempts /\ filePc' = filePc
                                /\ sent' = sent]_vars
  /\ [](Terminal =>
          /\ ~UploadInFlight
          /\ \A k \in 1..Len(relayState) : relayState[k] # "inflight")

\* a deployment of two files that went through every phase
C10_Witness ==
  /\ pc = "done"
  /\ Len(staticFiles) = 2
  /\ Len(sent) = 3 * Len(config.relays)

ValidationErrors ==
  {"Build directory not found", "No index.html found in build directory"}

\* the build directory is missing or holds no index.html at its root
InvalidBuildDirectory == ~dirExists \/ IndexHtml \notin Range(tree)

\* C11: with a build directory that is missing or has no index.html the
\* deployment never leaves validation except into a validation error, and no
\* file is read for upload, no request is sent to a storage server and no
\* event is broadcast; a validation error is raised for no other directory.
C11_ValidationFirst ==
  /\ InvalidBuildDirectory =>
       /\ pc \in {"validate", "failed"}
       /\ pc = "failed" => error \in ValidationErrors
       /\ files = << >> /\ filePc = << >> /\ attempts = << >>
       /\ sent = << >>
  /\ (pc = "failed" /\ error \in ValidationErrors) => InvalidBuildDirectory

\* a directory whose only index.html lies in a subdirectory was refused
C11_Witness ==
  /\ pc = "failed"
  /\ error = "No index.html found in build directory"
  /\ dirExists
  /\ tree = <<SubIndexHtml>>

\* uploadFiles has returned
Uploaded == files # << >> /\ pc \notin {"uploadDirectory", "uploading"}

C13_EntryPerConfiguredServer ==
  \A i \in FileIds :
    FileDone(i) =>
      [k \in 1..Len(FileResult(i).serverResults) |->
         FileResult(i).serverResults[k].server] = config.servers

\* C14: the object uploadDirectory returned holds one entry per file of the
\* tree, keyed by the file's relative path and holding that file's outcome.
C14_OneEntryPerFile ==
  Uploaded =>
    /\ Len(uploadResults) = Len(files)
    /\ \A i \in FileIds :
         \E j \in 1..Len(uploadResults) :
           /\ uploadResults[j].key = tree[i]
           /\ uploadResults[j].value = FileResult(i)

\* a deployment during which another process rewrites app.js
InitRewrittenFile ==
  /\ config = UserConfig("sk", "pk", <<RelayA>>, <<DefaultServer>>)
  /\ dirExists = TRUE
  /\ tree = <<IndexHtml, AppJs>>
  /\ rewritten = {AppJs}
  /\ relayError = Rejected
  /\ miner = MinerIdle
  /\ normalizing = NoPath
  /\ envFile = NoConfigManager
  /\ cm = NoConfigManager
  /\ Constructed

SpecRewrittenFile == InitRewrittenFile /\ [][Next]_vars

\* C15: the x tag of a broadcast kind 34128 event is the hash under which
\* the file it names was probed and stored on every server that reported
\* success for that file.
C15_RecordHashIsStoredHash ==
  \A n \in SentOfKind(KindStaticFile) :
    \A i \in FileIds :
      sent[n].event.tags[1] = <<"d", normalizeFilePath(tree[i])>> =>
        \A k \in 1..Len(attempts[i]) :
          attempts[i][k].pc = "ok" =>
            sent[n].event.tags[2] = <<"x", attempts[i][k].sha256>>

\* the (file, server) attempts of the deployment
AttemptIds == UNION {{<<i, k>> : k \in 1..Len(attempts[i])} : i \in FileIds}

AttemptAt(id) == attempts[id[1]][id[2]]

\* the methods of the requests an attempt has sent
Methods(a) == {a.requests[n].method : n \in 1..Len(a.requests)}

\* C16: an attempt whose server returned the blob for the file's hash is a
\* success that has sent the GET and nothing else, neither the policy probe
\* nor the PUT, and its entry in the file's outcome is a success without
\* error.
C16_ExistingBlobIsSuccess ==
  \A id \in AttemptIds :
    AttemptAt(id).existingFile =>
      /\ AttemptAt(id).pc = "ok"
      /\ AttemptAt(id).requests = <<Request("GET", FALSE)>>
      /\ ServerResults(id[1])[id[2]] =
           [server |-> AttemptAt(id).server, success |-> TRUE, error |-> ""]

\* a deployment of two files that were both present on the server already:
\* it is done and has sent no probe and no PUT
C16_Witness ==
  /\ pc = "done"
  /\ Len(files) = 2
  /\ \A id \in AttemptIds : AttemptAt(id).existingFile
  /\ AttemptIds # {}

\* C17: the probe maps 200 to allowed without authorization, 401 to allowed
\* with authorization and 403, 413, 415 to rejected with the server's
\* reason; an attempt whose probe rejected the upload has failed with the
\* rejection error and sent no PUT; a PUT is only sent after a probe that
\* allowed the upload and carries the Authorization header exactly when that
\* probe required authorization.
C17_ProbePolicy ==
  /\ \A xReason \in XReasons :
       /\ checkUploadRequirements(200, xReason).allowed
       /\ ~checkUploadRequirements(200, xReason).requiresAuth
       /\ checkUploadRequirements(401, xReason).allowed
       /\ checkUploadRequirements(401, xReason).requiresAuth
       /\ \A status \in {403, 413, 415} :
            /\ ~checkUploadRequirements(status, xReason).allowed
            /\ xReason # "" =>
                 checkUploadRequirements(status, xReason).reason = xReason
  /\ \A id \in AttemptIds :
       LET a == AttemptAt(id)
       IN /\ (a.canUpload # NoCanUpload /\ ~a.canUpload.allowed) =>
               /\ a.pc = "fail"
               /\ a.error = "Upload rejected"
               /\ "PUT" \notin Methods(a)
          /\ \A n \in 1..Len(a.requests) :
               a.requests[n].method = "PUT" =>
                 /\ a.canUpload.allowed
                 /\ a.requests[n].authorization = a.canUpload.requiresAuth

\* one server refused the file with its reason, the other took it with an
\* authorized PUT
C17_Witness ==
  /\ pc = "buildRecords"
  /\ \E id \in AttemptIds :
       /\ AttemptAt(id).pc = "fail"
       /\ AttemptAt(id).canUpload.reason = "blocked"
  /\ \E id \in AttemptIds :
       /\ AttemptAt(id).pc = "ok"
       /\ AttemptAt(id).requests =
            <<Request("GET", FALSE), Request("HEAD", FALSE), Request("PUT", TRUE)>>

ReadOnlyIdentity == config.privateKey = "" /\ config.publicKey # ""

\* C18: with a read-only identity nothing is ever handed to a relay, and a
\* publishEvent that is called fails with the missing-key error.
C18_ReadOnlyNeverPublishes ==
  /\ [](ReadOnlyIdentity =>
          /\ sent = << >>
          /\ relayState = << >>
          /\ eventResults = << >>
          /\ pc \notin {"broadcastFile", "delay", "publishServers",
                        "broadcastServers", "done"})
  /\ [][(ReadOnlyIdentity /\ pc \in {"publishFile", "publishServers"}
                           /\ pc' # pc) =>
          pc' = "failed" /\ error' = "No private key configured"]_vars

\* a read-only identity uploaded a file without authorization and failed at
\* its first publish
C18_Witness ==
  /\ ReadOnlyIdentity
  /\ pc = "failed"
  /\ error = "No private key configured"
  /\ Len(staticFiles) > 0

\* C19: with proof-of-work enabled every broadcast event carries a nonce tag
\* that records the configured target difficulty.
C19_PowEventsCarryNonce ==
  config.pow.enabled =>
    \A n \in 1..Len(sent) :
      \E t \in 1..Len(sent[n].event.tags) :
        /\ sent[n].event.tags[t][1] = "nonce"
        /\ Len(sent[n].event.tags[t]) = 3
        /\ sent[n].event.tags[t][3] = config.pow.targetDifficulty

\* C20: the event a completed mining run returns is the input event with
\* one nonce tag that records the nonce and the target difficulty D, its
\* identifier has at least D leading zero bits, and for D = 0 it is the
\* candidate of the initial nonce.
C20_MinedMeetsTarget ==
  miner.pc = "mined" =>
    /\ LeadingZeroBits(Identifier(miner.result)) >= miner.target
    /\ NonceTags(miner.result) = << <<"nonce", miner.nonce, miner.target>> >>
    /\ WithoutNonce(miner.result) = WithoutNonce(miner.event)
    /\ miner.target = 0 => miner.nonce = 0

\* a run that had to search and stopped at an identifier beyond its target
C20_Witness ==
  /\ miner.pc = "mined"
  /\ miner.target >= 2
  /\ miner.nonce > 0
  /\ LeadingZeroBits(Identifier(miner.result)) > miner.target

\* C21: what normalizeFilePath returns starts with "/" and holds no
\* backslash, and normalizing it again returns it unchanged.
C21_NormalizeIdempotent ==
  /\ normalizing.pc \in {"once", "twice"} =>
       /\ Len(normalizing.once) > 0
       /\ normalizing.once[1] = "/"
       /\ "\\" \notin Range(normalizing.once)
  /\ normalizing.pc = "twice" => normalizing.twice = normalizing.once

\* a Windows-style relative path with two backslashes was normalized twice
C21_Witness ==
  /\ normalizing.pc = "twice"
  /\ normalizing.path = <<"assets", "\\", "\\">>
  /\ normalizing.twice = <<"/", "assets", "/", "/">>

\* the PUT requests of an attempt
PutRequests(a) == {n \in 1..Len(a.requests) : a.requests[n].method = "PUT"}

\* an attempt or a publish that failed is left as it is
FailedStaysFailed ==
  /\ \A i \in FileIds : \A k \in 1..Len(attempts[i]) :
       attempts[i][k].pc = "fail" => attempts'[i][k] = attempts[i][k]
  /\ \A k \in 1..Len(relayState) :
       relayState[k] = "rejected" /\ event' = event =>
         /\ relayState'[k] = "rejected"
         /\ sent' = sent

\* each (file, server) pair and each (event, relay) pair is tried once
TriedOnce ==
  /\ \A i \in FileIds : \A k \in 1..Len(attempts[i]) :
       /\ Cardinality(PutRequests(attempts[i][k])) <= 1
       /\ \A j \in 1..Len(attempts[i]) :
            attempts[i][j].server = attempts[i][k].server => j = k
  /\ \A n \in 1..Len(sent) :
       Cardinality(Broadcasts(sent[n].event, sent[n].relay)) = 1

\* C22: nothing is retried: each (file, server) pair sees at most one PUT,
\* each (event, relay) pair at most one publish, and a failed attempt is
\* never repeated.
C22_NothingRetried == []TriedOnce /\ [][FailedStaysFailed]_vars

\* a deployment that is Done although a PUT failed and a relay rejected
C22_Witness ==
  /\ pc = "done"
  /\ \E id \in AttemptIds :
       /\ AttemptAt(id).pc = "fail"
       /\ Cardinality(PutRequests(AttemptAt(id))) = 1
  /\ \E n \in 1..Len(answers) : ~answers[n].accepted
  /\ Len(eventResults) > 0

\* deployStaticSite returned its DeploymentResult
Returned == result # NoResult

\* deployStaticSite threw
Thrown == error # ""

\* a return or a throw is the last thing an invocation does, and the error
\* thrown is the first one raised
OutcomeIsFinal ==
  /\ Returned => result' = result /\ pc' = pc
  /\ Thrown => error' = error /\ pc' = pc

\* C23: when every request is answered, every invocation of deployStaticSite
\* ends, either by returning a DeploymentResult or by throwing its first
\* fatal error, never both and never neither.
C23_ExactlyOneOutcome ==
  /\ <>(Returned \/ Thrown)
  /\ [](~(Returned /\ Thrown))
  /\ [](Returned <=> pc = "done")
  /\ [](Thrown <=> pc = "failed")
  /\ [][OutcomeIsFinal]_vars

\* an invocation that threw after it had published its first event
C23_Witness ==
  /\ Thrown
  /\ ~Returned
  /\ error = PublishFailed
  /\ Len(eventResults) = 1
  /\ Len(staticFiles) = 2

\* C28: whenever some file is eligible, some server had a successful upload:
\* deployStaticSite never throws 'No Blossom servers had successful uploads'.
C28_EligibleFileHasServer ==
  /\ error # NoServersAvailable
  /\ Len(staticFiles) > 0 =>
       /\ Len(SuccessfulServers(uploadResults, Len(uploadResults))) > 0
       /\ pc # "successfulServers" => Len(blossomServers) > 0

\* the servers were collected for one eligible file while an upload of
\* another file had failed
C28_Witness ==
  /\ pc = "publishFile"
  /\ Len(staticFiles) = 1
  /\ Len(blossomServers) = 1
  /\ \E id \in AttemptIds : AttemptAt(id).pc = "fail"

\* the per-relay results publishEvent has returned or is about to return
RecordedRelayResults ==
  UNION {Range(eventResults[j].relayResults) : j \in 1..Len(eventResults)}
    \cup (IF Returned THEN Range(result.userServersEventResult.relayResults)
          ELSE {})
    \cup (IF pc \in {"broadcastFile", "broadcastServers"} /\ AllSettled
          THEN Range(ProcessedResults) ELSE {})

\* the category a failure message belongs to starts the recorded error
Categorized(recorded) ==
  /\ Includes(recorded, "pow:") => recorded[1] = "POW required: "
  /\ Includes(recorded, "rate limit") => recorded[1] = "Rate limited: "
  /\ Includes(recorded, "blocked") => recorded[1] = "Blocked: "
  /\ Includes(recorded, "timeout") => recorded[1] = "Connection timeout: "

\* C27: a relay failure whose message mentions proof of work, a rate limit,
\* a block or a timeout is recorded with its category in front.
C27_FailuresCategorized ==
  \A r \in RecordedRelayResults : ~r.success => Categorized(r.error)

\* the private key of a nostr block, '' when it has none
PrivateKeyOf(nostr) == IF Has(nostr, "privateKey") THEN nostr.privateKey ELSE ""

\* the timeout of a pow block, 0 when it has none
TimeoutOf(pow) == IF Has(pow, "timeout") THEN pow.timeout ELSE 0

\* C29: a configuration saved to the env file and loaded again has the same
\* private key, public key, relays, PoW enabled flag, PoW target difficulty,
\* PoW timeout, Blossom server and base domain.
C29_EnvFileRoundTrip ==
  envFile.pc = "loaded" =>
    /\ PrivateKeyOf(envFile.loaded.nostr) = PrivateKeyOf(envFile.config.nostr)
    /\ envFile.loaded.nostr.publicKey = envFile.config.nostr.publicKey
    /\ envFile.loaded.nostr.relays = envFile.config.nostr.relays
    /\ envFile.loaded.nostr.pow.enabled = envFile.config.nostr.pow.enabled
    /\ envFile.loaded.nostr.pow.targetDifficulty =
         envFile.config.nostr.pow.targetDifficulty
    /\ TimeoutOf(envFile.loaded.nostr.pow) = TimeoutOf(envFile.config.nostr.pow)
    /\ envFile.loaded.blossom.serverUrl = envFile.config.blossom.serverUrl
    /\ envFile.loaded.deployment.baseDomain = envFile.config.deployment.baseDomain

\* the callers performAutoSetup has returned to
SetupDone ==
  {c \in CallerIds : cm.callers[c].program = "autoSetup" /\ cm.callers[c].pc = "done"}

\* the keys of a configuration, '' for a key that is not set
KeysOf(c) ==
  IF Has(c, "nostr") THEN <<PrivateKeyOf(c.nostr), c.nostr.publicKey>>
  ELSE <<"", "">>

\* the local configuration held a public or a private key before the setup
HadIdentity(caller) == caller.hadFile /\ HasAuth(caller.before)

\* C24: performAutoSetup keeps an existing identity, generates a keypair
\* only when the local configuration holds no key, keeps the relays, the
\* Blossom server and the base domain that are set, and writes defaults
\* only for what is missing.
C24_SetupKeepsWhatIsSet ==
  \A c \in SetupDone :
    LET caller == cm.callers[c]
        before == caller.before
    IN /\ HadIdentity(caller) =>
            /\ KeysOf(cm.config) = KeysOf(before)
            /\ KeysOf(parseEnvFile(cm.file.content)) = KeysOf(before)
       /\ caller.generated => ~HadIdentity(caller)
       /\ ~HadIdentity(caller) => caller.generated
       /\ caller.hadFile =>
            /\ Len(before.nostr.relays) > 0 =>
                 cm.config.nostr.relays = before.nostr.relays
            /\ Truthy(before.blossom.serverUrl) =>
                 cm.config.blossom.serverUrl = before.blossom.serverUrl
            /\ Truthy(before.deployment.baseDomain) =>
                 cm.config.deployment.baseDomain = before.deployment.baseDomain
            /\ Len(before.nostr.relays) = 0 => cm.config.nostr.relays = SetupDefaults.relays
            /\ ~Truthy(before.blossom.serverUrl) =>
                 cm.config.blossom.serverUrl = SetupDefaults.serverUrl
            /\ ~Truthy(before.deployment.baseDomain) =>
                 cm.config.deployment.baseDomain = SetupDefaults.baseDomain

\* the callers getInstance has returned to
GotInstance == {c \in CallerIds : cm.callers[c].returned # 0}

\* C25: every call of ConfigManager.getInstance, overlapping or not, returns
\* the same instance.
C25_OneInstance ==
  /\ \A c1, c2 \in GotInstance : cm.callers[c1].returned = cm.callers[c2].returned
  /\ \A c \in GotInstance : cm.callers[c].returned = cm.instance

\* two calls whose loads overlapped have both returned
C25_Witness ==
  /\ GotInstance = {1, 2}
  /\ cm.loads = 2
  /\ cm.callers[1].returned = 1
  /\ cm.callers[2].returned = 1

\* the settings of a configuration, by name
LeafNames ==
  {"nostr.privateKey", "nostr.publicKey", "nostr.relays", "nostr.pow.enabled",
   "nostr.pow.targetDifficulty", "nostr.pow.timeout", "blossom.serverUrl",
   "deployment.baseDomain"}

\* the value of a setting in (a part of) a configuration: <<v>>, or << >>
\* when it is not there
Leaf(c, name) ==
  LET nostr == IF Has(c, "nostr") THEN c.nostr ELSE << >>
      pow == IF Has(nostr, "pow") THEN nostr.pow ELSE << >>
      blossom == IF Has(c, "blossom") THEN c.blossom ELSE << >>
      deployment == IF Has(c, "deployment") THEN c.deployment ELSE << >>
      Field(object, field) == IF Has(object, field) THEN <<object[field]>> ELSE << >>
  IN CASE name = "nostr.privateKey" -> Field(nostr, "privateKey")
       [] name = "nostr.publicKey" -> Field(nostr, "publicKey")
       [] name = "nostr.relays" -> Field(nostr, "relays")
       [] name = "nostr.pow.enabled" -> Field(pow, "enabled")
       [] name = "nostr.pow.targetDifficulty" -> Field(pow, "targetDifficulty")
       [] name = "nostr.pow.timeout" -> Field(pow, "timeout")
       [] name = "blossom.serverUrl" -> Field(blossom, "serverUrl")
       [] name = "deployment.baseDomain" -> Field(deployment, "baseDomain")

\* the settings a call of a mutator gives (setNostrPow gives the whole pow
\* block: an undefined timeout is "no timeout")
GivenNames(call) ==
  CASE call.name = "updateConfig" ->
         {name \in LeafNames : Leaf(call.updates, name) # << >>}
    [] call.name = "setNostrKey" -> {"nostr.privateKey", "nostr.publicKey"}
    [] call.name = "setNostrRelays" -> {"nostr.relays"}
    [] call.name = "setNostrPow" ->
         {"nostr.pow.enabled", "nostr.pow.targetDifficulty", "nostr.pow.timeout"}
    [] call.name = "setBlossomServer" -> {"blossom.serverUrl"}
    [] call.name = "setBaseDomain" -> {"deployment.baseDomain"}

\* the value a call gives to one of the settings it gives
GivenValue(call, name) ==
  CASE call.name = "updateConfig" -> Leaf(call.updates, name)
    [] call.name = "setNostrKey" ->
         IF name = "nostr.privateKey" THEN <<call.privateKey>>
         ELSE <<call.publicKey>>
    [] call.name = "setNostrRelays" -> <<call.relays>>
    [] call.name = "setNostrPow" ->
         IF name = "nostr.pow.enabled" THEN <<call.enabled>>
         ELSE IF name = "nostr.pow.targetDifficulty" THEN <<call.targetDifficulty>>
         ELSE call.timeout
    [] call.name = "setBlossomServer" -> <<call.serverUrl>>
    [] call.name = "setBaseDomain" -> <<call.baseDomain>>

\* caller c calls a mutator in this step
MutatorCalled(c) ==
  /\ cm.callers[c].program = "mutate"
  /\ cm.callers[c].pc = "got"
  /\ cm'.callers[c].pc = "writeFile"

\* C26: a mutator makes getConfig() return the new value for exactly the
\* settings it was given and leaves every other setting unchanged.
C26_MutatorFrame ==
  [][\A c \in CallerIds :
       MutatorCalled(c) =>
         \A name \in LeafNames :
           Leaf(cm'.config, name) =
             IF name \in GivenNames(cm'.callers[c].call)
             THEN GivenValue(cm'.callers[c].call, name)
             ELSE Leaf(cm.config, name)]_vars

\* C30: the stored configuration is loaded at most once per process, and no
\* load overwrites a change made through an instance already returned.
C30_LoadedOnce ==
  cm.pc = "running" =>
    /\ cm.loads <= 1
    /\ ~cm.lost
====
